---- MODULE Spec2Model ----
(***************************************************************************)
(* Lap steel dyads: pitch arithmetic and chord parsing (lib/music),        *)
(* fretboard position search (lib/fretboard), dyad search and guide-tone   *)
(* filters (lib/dyads), chord substitutions (lib/substitutions) and the    *)
(* application state behind the chord and tuning inputs (App, ChordInput,  *)
(* TuningInput).                                                           *)
(*                                                                         *)
(* A JavaScript string is modelled as the sequence of its characters, so   *)
(* that case folding, the chord regular expression and property lookup by  *)
(* key are computed rather than assumed.  A function that can throw        *)
(* returns either Return(v) or Throw(message).                             *)
(***************************************************************************)
EXTENDS Integers, Sequences, FiniteSets, TLC

VARIABLES pc, args, ret, app

vars == <<pc, args, ret, app>>

(***************************************************************************)
(* Bounds of the explored inputs.                                          *)
(***************************************************************************)
MaxSymbolLen == 3
MaxStrings == 3
MaxSlant == 2
MaxFret == 3
MaxListLen == 3

(***************************************************************************)
(* JavaScript primitives.                                                  *)
(***************************************************************************)
Throw(message) == [threw |-> TRUE, error |-> message]

Return(value) == [threw |-> FALSE, value |-> value]

\* a % b of JavaScript: the remainder takes the sign of the dividend
JsRem(a, b) == IF a >= 0 THEN a % b ELSE 0 - ((0 - a) % b)

Abs(x) == IF x >= 0 THEN x ELSE 0 - x

Min(a, b) == IF a <= b THEN a ELSE b

LowerCase == <<"a", "b", "c", "d", "e", "f", "g", "h", "i", "j", "k", "l", "m",
               "n", "o", "p", "q", "r", "s", "t", "u", "v", "w", "x", "y", "z">>

UpperCase == <<"A", "B", "C", "D", "E", "F", "G", "H", "I", "J", "K", "L", "M",
               "N", "O", "P", "Q", "R", "S", "T", "U", "V", "W", "X", "Y", "Z">>

\* String.prototype.toUpperCase on one character
toUpperCase(c) ==
  IF \E i \in 1..26 : LowerCase[i] = c
  THEN UpperCase[CHOOSE i \in 1..26 : LowerCase[i] = c]
  ELSE c

\* Array.prototype.indexOf, 0-based, -1 when absent
indexOf(seq, x) ==
  IF \E i \in 1..Len(seq) : seq[i] = x
  THEN (CHOOSE i \in 1..Len(seq) : seq[i] = x /\ \A j \in 1..(i - 1) : seq[j] # x) - 1
  ELSE 0 - 1

\* Property names every object literal inherits from Object.prototype; a
\* lookup obj[key] with such a key yields a truthy value that is no array.
ObjectPrototypeKeys ==
  { <<"c", "o", "n", "s", "t", "r", "u", "c", "t", "o", "r">>,
    <<"t", "o", "S", "t", "r", "i", "n", "g">>,
    <<"v", "a", "l", "u", "e", "O", "f">>,
    <<"_", "_", "p", "r", "o", "t", "o", "_", "_">> }

\* The outcome of a property lookup: an own property with its value, a
\* property inherited from Object.prototype, or undefined.
Own(value) == [kind |-> "own", value |-> value]

Inherited(key) == [kind |-> "inherited", value |-> key]

Undefined == [kind |-> "undefined", value |-> <<>>]

\* obj[key] for an object literal given as a sequence of [key, value] entries
Lookup(obj, key) ==
  IF \E i \in 1..Len(obj) : obj[i].key = key
  THEN Own(obj[CHOOSE i \in 1..Len(obj) : obj[i].key = key].value)
  ELSE IF key \in ObjectPrototypeKeys THEN Inherited(key) ELSE Undefined

\* own values of the tables are non-empty strings and arrays, inherited
\* ones are functions and objects: all truthy
Truthy(v) == v.kind # "undefined"

\* only the own values of CHORD_INTERVALS are arrays (have a map method)
IsArray(v) == v.kind = "own"

(***************************************************************************)
(* lib/music: notes, intervals, chords.                                    *)
(***************************************************************************)
NOTES == << <<"C">>, <<"C", "#">>, <<"D">>, <<"D", "#">>, <<"E">>, <<"F">>,
            <<"F", "#">>, <<"G">>, <<"G", "#">>, <<"A">>, <<"A", "#">>, <<"B">> >>

FLAT_TO_SHARP ==
  << [key |-> <<"D", "b">>, value |-> <<"C", "#">>],
     [key |-> <<"E", "b">>, value |-> <<"D", "#">>],
     [key |-> <<"F", "b">>, value |-> <<"E">>],
     [key |-> <<"G", "b">>, value |-> <<"F", "#">>],
     [key |-> <<"A", "b">>, value |-> <<"G", "#">>],
     [key |-> <<"B", "b">>, value |-> <<"A", "#">>],
     [key |-> <<"C", "b">>, value |-> <<"B">>] >>

CHORD_INTERVALS ==
  << [key |-> <<>>, value |-> <<0, 4, 7>>],
     [key |-> <<"m", "a", "j">>, value |-> <<0, 4, 7>>],
     [key |-> <<"M">>, value |-> <<0, 4, 7>>],
     [key |-> <<"m">>, value |-> <<0, 3, 7>>],
     [key |-> <<"m", "i", "n">>, value |-> <<0, 3, 7>>],
     [key |-> <<"-">>, value |-> <<0, 3, 7>>],
     [key |-> <<"d", "i", "m">>, value |-> <<0, 3, 6>>],
     [key |-> <<"o">>, value |-> <<0, 3, 6>>],
     [key |-> <<"a", "u", "g">>, value |-> <<0, 4, 8>>],
     [key |-> <<"+">>, value |-> <<0, 4, 8>>],
     [key |-> <<"7">>, value |-> <<0, 4, 7, 10>>],
     [key |-> <<"m", "a", "j", "7">>, value |-> <<0, 4, 7, 11>>],
     [key |-> <<"M", "7">>, value |-> <<0, 4, 7, 11>>],
     [key |-> <<"m", "7">>, value |-> <<0, 3, 7, 10>>],
     [key |-> <<"m", "i", "n", "7">>, value |-> <<0, 3, 7, 10>>],
     [key |-> <<"-", "7">>, value |-> <<0, 3, 7, 10>>],
     [key |-> <<"d", "i", "m", "7">>, value |-> <<0, 3, 6, 9>>],
     [key |-> <<"o", "7">>, value |-> <<0, 3, 6, 9>>],
     [key |-> <<"m", "7", "b", "5">>, value |-> <<0, 3, 6, 10>>],
     [key |-> <<"ø">>, value |-> <<0, 3, 6, 10>>],
     [key |-> <<"ø", "7">>, value |-> <<0, 3, 6, 10>>],
     [key |-> <<"a", "u", "g", "7">>, value |-> <<0, 4, 8, 10>>],
     [key |-> <<"+", "7">>, value |-> <<0, 4, 8, 10>>],
     [key |-> <<"6">>, value |-> <<0, 4, 7, 9>>],
     [key |-> <<"m", "6">>, value |-> <<0, 3, 7, 9>>],
     [key |-> <<"s", "u", "s", "2">>, value |-> <<0, 2, 7>>],
     [key |-> <<"s", "u", "s", "4">>, value |-> <<0, 5, 7>>],
     [key |-> <<"9">>, value |-> <<0, 4, 7, 10, 14>>],
     [key |-> <<"m", "a", "j", "9">>, value |-> <<0, 4, 7, 11, 14>>],
     [key |-> <<"m", "9">>, value |-> <<0, 3, 7, 10, 14>>] >>

INTERVAL_NAMES ==
  <<"unison", "m2", "M2", "m3", "M3", "P4", "TT", "P5", "m6", "M6", "m7", "M7">>

normalizeNote(note) ==
  LET upper == IF Len(note) = 0 THEN <<>>
               ELSE <<toUpperCase(note[1])>> \o Tail(note)
      flat == Lookup(FLAT_TO_SHARP, upper)
  IN IF Truthy(flat)
     THEN Return(IF flat.kind = "own" THEN flat.value ELSE flat)
     ELSE IF \E i \in 1..Len(NOTES) : NOTES[i] = upper
          THEN Return(upper)
          ELSE Throw("Invalid note")

noteToSemitone(note) ==
  LET index(normalized) ==
        IF normalized.threw THEN normalized
        ELSE Return(indexOf(NOTES, normalized.value))
  IN index(normalizeNote(note))

semitoneToNote(semitone) == NOTES[JsRem(JsRem(semitone, 12) + 12, 12) + 1]

transposeNote(note, semitones) ==
  LET index == noteToSemitone(note)
  IN semitoneToNote(index.value + semitones)

\* getInterval with the remainder left signed: (s2 - s1) % 12
getIntervalSignedRemainder(note1, note2) ==
  LET interval(s1, s2) ==
        IF s1.threw THEN s1
        ELSE IF s2.threw THEN s2
        ELSE Return(JsRem(s2.value - s1.value, 12))
  IN interval(noteToSemitone(note1), noteToSemitone(note2))

getInterval(note1, note2) ==
  LET interval(s1, s2) ==
        IF s1.threw THEN s1
        ELSE IF s2.threw THEN s2
        ELSE Return(JsRem(JsRem(s2.value - s1.value, 12) + 12, 12))
  IN interval(noteToSemitone(note1), noteToSemitone(note2))

getIntervalName(semitones) ==
  LET normalized == JsRem(JsRem(semitones, 12) + 12, 12)
  IN INTERVAL_NAMES[normalized + 1]

\* the characters the chord regular expression /^([A-Ga-g][#b]?)(.*)$/
\* accepts in first and second place
RootLetters == {"A", "B", "C", "D", "E", "F", "G", "a", "b", "c", "d", "e", "f", "g"}

Accidentals == {"#", "b"}

parseChord(chord) ==
  IF Len(chord) = 0 \/ chord[1] \notin RootLetters
  THEN Throw("Invalid chord")
  ELSE LET n == IF Len(chord) >= 2 /\ chord[2] \in Accidentals THEN 2 ELSE 1
           rootStr == SubSeq(chord, 1, n)
           quality == SubSeq(chord, n + 1, Len(chord))
           root == normalizeNote(rootStr)
       IN IF root.threw THEN root
          ELSE IF quality # <<>> /\ ~Truthy(Lookup(CHORD_INTERVALS, quality))
               THEN Throw("Unknown chord quality")
               ELSE Return([root |-> root.value, quality |-> quality])

\* getChordTones that always takes the intervals of the empty suffix
getChordTonesMajorOnly(chord) ==
  LET tones(parsed) ==
        IF parsed.threw THEN parsed
        ELSE LET intervals == Lookup(CHORD_INTERVALS, <<>>)
                 rootSemitone == noteToSemitone(parsed.value.root)
             IN Return([i \in 1..Len(intervals.value) |->
                          semitoneToNote(rootSemitone.value + intervals.value[i])])
  IN tones(parseChord(chord))

getChordTones(chord) ==
  LET tones(parsed) ==
        IF parsed.threw THEN parsed
        ELSE LET found == Lookup(CHORD_INTERVALS, parsed.value.quality)
                 intervals == IF Truthy(found) THEN found ELSE Lookup(CHORD_INTERVALS, <<>>)
                 rootSemitone == noteToSemitone(parsed.value.root)
             IN IF ~IsArray(intervals)
                THEN Throw("intervals.map is not a function")
                ELSE Return([i \in 1..Len(intervals.value) |->
                               semitoneToNote(rootSemitone.value + intervals.value[i])])
  IN tones(parseChord(chord))

(***************************************************************************)
(* lib/fretboard: positions of a note on the strings.                      *)
(***************************************************************************)
LAP_STEEL_TUNING == << <<"G">>, <<"B">>, <<"D">>, <<"F", "#">>, <<"A">>, <<"D">> >>

LEVER_CONFIG ==
  << [stringIndex |-> 3, semitones |-> 1, openNote |-> <<"F", "#">>, bentNote |-> <<"G">>],
     [stringIndex |-> 4, semitones |-> 2, openNote |-> <<"A">>, bentNote |-> <<"B">>] >>

FRET_COUNT == 24

\* The (string, fret) pairs in the order the nested loops
\*   for (string = 0; string < length; string++)
\*     for (fret = 0; fret <= maxFret; fret++)
\* visit them.
FretGrid(length, maxFret) ==
  [k \in 1..(length * (maxFret + 1)) |->
     [string |-> (k - 1) \div (maxFret + 1), fret |-> (k - 1) % (maxFret + 1)]]

\* findNotePositions that counts the frets from 1 when it computes the pitch
findNotePositionsOneBased(note, tuning, maxFret) ==
  LET targetSemitone == noteToSemitone(note).value
      openSemitone(string) == noteToSemitone(tuning[string + 1]).value
      Hit(cell) == JsRem(openSemitone(cell.string) + cell.fret + 1, 12) = targetSemitone
      hits == SelectSeq(FretGrid(Len(tuning), maxFret), Hit)
  IN [k \in 1..Len(hits) |->
        [string |-> hits[k].string, fret |-> hits[k].fret, note |-> note]]

findNotePositions(note, tuning, maxFret) ==
  LET targetSemitone == noteToSemitone(note).value
      openSemitone(string) == noteToSemitone(tuning[string + 1]).value
      Hit(cell) == JsRem(openSemitone(cell.string) + cell.fret, 12) = targetSemitone
      hits == SelectSeq(FretGrid(Len(tuning), maxFret), Hit)
  IN [k \in 1..Len(hits) |->
        [string |-> hits[k].string, fret |-> hits[k].fret, note |-> note]]

RECURSIVE findChordPositions(_, _, _)
findChordPositions(notes, tuning, maxFret) ==
  IF notes = <<>> THEN <<>>
  ELSE findNotePositions(Head(notes), tuning, maxFret)
         \o findChordPositions(Tail(notes), tuning, maxFret)

\* findNotePositionsWithLevers that skips every fret of an engaged string
findNotePositionsWithLeversSkipString(note, chordTones, levers, tuning, maxFret) ==
  LET targetSemitone == noteToSemitone(note).value
      bentSemitone(lever) == noteToSemitone(lever.bentNote).value
      Engaged(lever) ==
        \E i \in 1..Len(chordTones) :
           noteToSemitone(chordTones[i]).value = bentSemitone(lever)
      leverEngagedStrings ==
        {levers[i].stringIndex : i \in {j \in 1..Len(levers) : Engaged(levers[j])}}
      Bends(lever) == Engaged(lever) /\ targetSemitone = bentSemitone(lever)
      bent == SelectSeq(levers, Bends)
      openSemitone(string) == noteToSemitone(tuning[string + 1]).value
      Hit(cell) ==
        /\ ~(cell.string \in leverEngagedStrings)
        /\ JsRem(openSemitone(cell.string) + cell.fret, 12) = targetSemitone
      hits == SelectSeq(FretGrid(Len(tuning), maxFret), Hit)
  IN [k \in 1..Len(bent) |->
        [string |-> bent[k].stringIndex, fret |-> 0, note |-> note,
         isLeverBent |-> TRUE]]
     \o [k \in 1..Len(hits) |->
        [string |-> hits[k].string, fret |-> hits[k].fret, note |-> note,
         isLeverBent |-> FALSE]]

\* findNotePositionsWithLevers that keeps fret 0 of an engaged string
findNotePositionsWithLeversKeepOpen(note, chordTones, levers, tuning, maxFret) ==
  LET targetSemitone == noteToSemitone(note).value
      bentSemitone(lever) == noteToSemitone(lever.bentNote).value
      Engaged(lever) ==
        \E i \in 1..Len(chordTones) :
           noteToSemitone(chordTones[i]).value = bentSemitone(lever)
      Bends(lever) == Engaged(lever) /\ targetSemitone = bentSemitone(lever)
      bent == SelectSeq(levers, Bends)
      openSemitone(string) == noteToSemitone(tuning[string + 1]).value
      Hit(cell) == JsRem(openSemitone(cell.string) + cell.fret, 12) = targetSemitone
      hits == SelectSeq(FretGrid(Len(tuning), maxFret), Hit)
  IN [k \in 1..Len(bent) |->
        [string |-> bent[k].stringIndex, fret |-> 0, note |-> note,
         isLeverBent |-> TRUE]]
     \o [k \in 1..Len(hits) |->
        [string |-> hits[k].string, fret |-> hits[k].fret, note |-> note,
         isLeverBent |-> FALSE]]

findNotePositionsWithLevers(note, chordTones, levers, tuning, maxFret) ==
  LET targetSemitone == noteToSemitone(note).value
      bentSemitone(lever) == noteToSemitone(lever.bentNote).value
      Engaged(lever) ==
        \E i \in 1..Len(chordTones) :
           noteToSemitone(chordTones[i]).value = bentSemitone(lever)
      leverEngagedStrings ==
        {levers[i].stringIndex : i \in {j \in 1..Len(levers) : Engaged(levers[j])}}
      Bends(lever) == Engaged(lever) /\ targetSemitone = bentSemitone(lever)
      bent == SelectSeq(levers, Bends)
      openSemitone(string) == noteToSemitone(tuning[string + 1]).value
      Hit(cell) ==
        /\ ~(cell.fret = 0 /\ cell.string \in leverEngagedStrings)
        /\ JsRem(openSemitone(cell.string) + cell.fret, 12) = targetSemitone
      hits == SelectSeq(FretGrid(Len(tuning), maxFret), Hit)
  IN [k \in 1..Len(bent) |->
        [string |-> bent[k].stringIndex, fret |-> 0, note |-> note,
         isLeverBent |-> TRUE]]
     \o [k \in 1..Len(hits) |->
        [string |-> hits[k].string, fret |-> hits[k].fret, note |-> note,
         isLeverBent |-> FALSE]]

RECURSIVE ChordPositionsWithLevers(_, _, _, _, _)
ChordPositionsWithLevers(rest, notes, levers, tuning, maxFret) ==
  IF rest = <<>> THEN <<>>
  ELSE findNotePositionsWithLevers(Head(rest), notes, levers, tuning, maxFret)
         \o ChordPositionsWithLevers(Tail(rest), notes, levers, tuning, maxFret)

findChordPositionsWithLevers(notes, levers, tuning, maxFret) ==
  ChordPositionsWithLevers(notes, notes, levers, tuning, maxFret)

(***************************************************************************)
(* lib/dyads: pairs of positions one bar can stop.                         *)
(***************************************************************************)
INTERVAL_PRIORITY ==
  [i \in 0..11 |->
     CASE i \in {3, 4} -> 10
       [] i \in {10, 11} -> 9
       [] i = 6 -> 8
       [] i = 7 -> 5
       [] i \in {8, 9} -> 4
       [] i = 5 -> 3
       [] i = 2 -> 2
       [] i = 1 -> 1
       [] OTHER -> 0]

\* getDyadPriority that ranks an interval by its width
getDyadPriorityByWidth(interval) == interval

getDyadPriority(interval) ==
  IF interval \in DOMAIN INTERVAL_PRIORITY THEN INTERVAL_PRIORITY[interval] ELSE 0

\* pos.isLeverBent as a condition: a position without the field is not bent
IsLeverBent(pos) == "isLeverBent" \in DOMAIN pos /\ pos.isLeverBent

\* `${pos.isLeverBent}` in a template string
LeverText(pos) ==
  IF "isLeverBent" \notin DOMAIN pos THEN "undefined"
  ELSE IF pos.isLeverBent THEN "true" ELSE "false"

\* compareDyads without the tie-break on the lower string
compareDyadsFretOnly(a, b) ==
  LET fretA == Min(a.pos1.fret, a.pos2.fret)
      fretB == Min(b.pos1.fret, b.pos2.fret)
  IN fretA - fretB

\* The comparator of dyads.sort: negative, zero or positive
compareDyads(a, b) ==
  LET fretA == Min(a.pos1.fret, a.pos2.fret)
      fretB == Min(b.pos1.fret, b.pos2.fret)
  IN IF fretA # fretB THEN fretA - fretB
     ELSE a.pos1.string - b.pos1.string

\* Array.prototype.sort with compareDyads.  The sort is stable: an element
\* lands behind the elements that compare lower and behind the earlier
\* elements that compare equal.
sortDyads(dyads) ==
  LET n == Len(dyads)
      rank(i) ==
        Cardinality({j \in 1..n : compareDyads(dyads[j], dyads[i]) < 0})
          + Cardinality({j \in 1..(i - 1) : compareDyads(dyads[j], dyads[i]) = 0})
          + 1
      ranks == [i \in 1..n |-> rank(i)]
  IN [k \in 1..n |-> dyads[CHOOSE i \in 1..n : ranks[i] = k]]

\* The index pairs (i, j), 1-based, in the order the nested loops
\*   for (i = 0; i < length; i++) for (j = i + 1; j < length; j++)
\* visit them.
PairOrder(length) ==
  LET InLoop(pair) == pair.i < pair.j
  IN SelectSeq([k \in 1..(length * length) |->
                  [i |-> ((k - 1) \div length) + 1, j |-> ((k - 1) % length) + 1]],
               InLoop)

\* the loop head without the test on maxSlant
PassesBarTestsNoSlantLimit(positions, maxSlant, pair) ==
  LET pos1 == positions[pair.i]
      pos2 == positions[pair.j]
  IN ~(pos1.string = pos2.string)

\* The two `continue` tests on strings and frets at the head of the loop body
PassesBarTests(positions, maxSlant, pair) ==
  LET pos1 == positions[pair.i]
      pos2 == positions[pair.j]
      fretDiff == Abs(pos1.fret - pos2.fret)
  IN ~(pos1.string = pos2.string) /\ ~(fretDiff > maxSlant)

\* buildDyad that stores the positions in the order the loop met them
buildDyadUnordered(positions, pair) ==
  LET pos1 == positions[pair.i]
      pos2 == positions[pair.j]
      fretDiff == Abs(pos1.fret - pos2.fret)
      type == IF fretDiff = 0 THEN "straight" ELSE "slant"
      interval == getInterval(pos1.note, pos2.note).value
      leverPositions ==
        (IF IsLeverBent(pos1) THEN <<1>> ELSE <<>>)
          \o (IF IsLeverBent(pos2) THEN <<2>> ELSE <<>>)
  IN [key |-> <<pos1.string, pos1.fret, pos2.string, pos2.fret,
                LeverText(pos1), LeverText(pos2)>>,
      dyad |-> [pos1 |-> pos1, pos2 |-> pos2, interval |-> interval,
                intervalName |-> getIntervalName(interval), type |-> type,
                priority |-> getDyadPriority(interval),
                source |-> IF Len(leverPositions) > 0 THEN "lever" ELSE "direct",
                leverPositions |-> leverPositions]]

\* The key and the dyad the loop body of the lever-aware findDyads builds.
\* The key string joins non-negative numbers and words with "-", so it is
\* modelled by the tuple of its parts; leverPositions <<>> stands for the
\* undefined of a dyad without lever.
buildDyad(positions, pair) ==
  LET pos1 == positions[pair.i]
      pos2 == positions[pair.j]
      fretDiff == Abs(pos1.fret - pos2.fret)
      type == IF fretDiff = 0 THEN "straight" ELSE "slant"
      lower == IF pos1.string < pos2.string THEN pos1 ELSE pos2
      higher == IF pos1.string < pos2.string THEN pos2 ELSE pos1
      interval == getInterval(lower.note, higher.note).value
      leverPositions ==
        (IF IsLeverBent(lower) THEN <<1>> ELSE <<>>)
          \o (IF IsLeverBent(higher) THEN <<2>> ELSE <<>>)
  IN [key |-> <<lower.string, lower.fret, higher.string, higher.fret,
                LeverText(lower), LeverText(higher)>>,
      dyad |-> [pos1 |-> lower, pos2 |-> higher, interval |-> interval,
                intervalName |-> getIntervalName(interval), type |-> type,
                priority |-> getDyadPriority(interval),
                source |-> IF Len(leverPositions) > 0 THEN "lever" ELSE "direct",
                leverPositions |-> leverPositions]]

\* The key and the dyad the loop body of the findDyads without levers builds
buildDyadPlain(positions, pair) ==
  LET pos1 == positions[pair.i]
      pos2 == positions[pair.j]
      fretDiff == Abs(pos1.fret - pos2.fret)
      type == IF fretDiff = 0 THEN "straight" ELSE "slant"
      lower == IF pos1.string < pos2.string THEN pos1 ELSE pos2
      higher == IF pos1.string < pos2.string THEN pos2 ELSE pos1
      interval == getInterval(lower.note, higher.note).value
  IN [key |-> <<lower.string, lower.fret, higher.string, higher.fret>>,
      dyad |-> [pos1 |-> lower, pos2 |-> higher, interval |-> interval,
                intervalName |-> getIntervalName(interval), type |-> type,
                priority |-> getDyadPriority(interval),
                source |-> "direct"]]

\* the loop without the set of seen keys: every built entry is pushed
pushAll(built) == [m \in 1..Len(built) |-> built[m].dyad]

\* if (seen.has(key)) continue; seen.add(key): of the built entries, in loop
\* order, the loop pushes the first one of every key
pushUnseen(built) ==
  LET Unseen(k) == \A earlier \in 1..(k - 1) : built[earlier].key # built[k].key
      pushed == SelectSeq([k \in 1..Len(built) |-> k], Unseen)
  IN [m \in 1..Len(pushed) |-> built[pushed[m]].dyad]

\* findDyads of lib/dyads with lever support
findDyads(chordTones, maxSlant, tuning, maxFret, useLevers) ==
  LET positions ==
        IF useLevers
        THEN findChordPositionsWithLevers(chordTones, LEVER_CONFIG, tuning, maxFret)
        ELSE findChordPositions(chordTones, tuning, maxFret)
      Passes(pair) == PassesBarTests(positions, maxSlant, pair)
      pairs == SelectSeq(PairOrder(Len(positions)), Passes)
      built == [k \in 1..Len(pairs) |-> buildDyad(positions, pairs[k])]
  IN sortDyads(pushUnseen(built))

\* findDyads of the revision without levers
findDyadsPlain(chordTones, maxSlant, tuning, maxFret) ==
  LET positions == findChordPositions(chordTones, tuning, maxFret)
      Passes(pair) == PassesBarTests(positions, maxSlant, pair)
      pairs == SelectSeq(PairOrder(Len(positions)), Passes)
      built == [k \in 1..Len(pairs) |-> buildDyadPlain(positions, pairs[k])]
  IN sortDyads(pushUnseen(built))

\* findDyads of the revision whose dyads carry neither priority nor source
findDyadsUntagged(chordTones, maxSlant, tuning, maxFret) ==
  LET untagged(tagged) ==
        [k \in 1..Len(tagged) |->
           [pos1 |-> tagged[k].pos1, pos2 |-> tagged[k].pos2,
            interval |-> tagged[k].interval,
            intervalName |-> tagged[k].intervalName, type |-> tagged[k].type]]
  IN untagged(findDyadsPlain(chordTones, maxSlant, tuning, maxFret))

(***************************************************************************)
(* lib/dyads: the guide-tone filters.                                      *)
(***************************************************************************)
\* Math.min(d.pos1.fret, d.pos2.fret)
minFret(d) == Min(d.pos1.fret, d.pos2.fret)

\* dyadsOverlap that only looks for a shared (string, fret) coordinate
dyadsOverlapSharedOnly(a, b, fretProximity) ==
  LET aPositions == {<<a.pos1.string, a.pos1.fret>>, <<a.pos2.string, a.pos2.fret>>}
      bPositions == {<<b.pos1.string, b.pos1.fret>>, <<b.pos2.string, b.pos2.fret>>}
  IN aPositions \cap bPositions # {}

\* dyadsOverlap that measures the distance of the frets from a to b only
dyadsOverlapOneWay(a, b, fretProximity) ==
  LET aPositions == {<<a.pos1.string, a.pos1.fret>>, <<a.pos2.string, a.pos2.fret>>}
      bPositions == {<<b.pos1.string, b.pos1.fret>>, <<b.pos2.string, b.pos2.fret>>}
      fretsClose == minFret(a) - minFret(b) <= fretProximity
      aStrings == {a.pos1.string, a.pos2.string}
      bStrings == {b.pos1.string, b.pos2.string}
      stringsOverlap == aStrings \cap bStrings # {}
  IN IF aPositions \cap bPositions # {} THEN TRUE
     ELSE fretsClose /\ stringsOverlap

\* The key `${string}-${fret}` joins two non-negative numbers, so it is
\* modelled by the pair.  The body is the same in both revisions; they
\* differ in the default of fretProximity only.
dyadsOverlap(a, b, fretProximity) ==
  LET aPositions == {<<a.pos1.string, a.pos1.fret>>, <<a.pos2.string, a.pos2.fret>>}
      bPositions == {<<b.pos1.string, b.pos1.fret>>, <<b.pos2.string, b.pos2.fret>>}
      fretsClose == Abs(minFret(a) - minFret(b)) <= fretProximity
      aStrings == {a.pos1.string, a.pos2.string}
      bStrings == {b.pos1.string, b.pos2.string}
      stringsOverlap == aStrings \cap bStrings # {}
  IN IF aPositions \cap bPositions # {} THEN TRUE
     ELSE fretsClose /\ stringsOverlap

\* for (const dyad of sorted) if (!selected.some(overlap)) selected.push(dyad)
\* The loop over sorted[lo..hi], started with `selected`: the first half of
\* the range, then the second half from where the first half ended.
RECURSIVE selectNonOverlapping(_, _, _, _, _)
selectNonOverlapping(sorted, lo, hi, selected, fretProximity) ==
  IF lo > hi THEN selected
  ELSE IF lo = hi
  THEN LET dyad == sorted[lo]
           overlapsWithSelected ==
             \E k \in 1..Len(selected) : dyadsOverlap(dyad, selected[k], fretProximity)
       IN IF overlapsWithSelected THEN selected ELSE Append(selected, dyad)
  ELSE LET mid == (lo + hi) \div 2
       IN selectNonOverlapping(sorted, mid + 1, hi,
                               selectNonOverlapping(sorted, lo, mid, selected,
                                                    fretProximity),
                               fretProximity)

compareMinFret(a, b) == minFret(a) - minFret(b)

\* Array.prototype.sort with compareMinFret; stable, as sortDyads
sortByMinFret(items) ==
  LET n == Len(items)
      ranks == [i \in 1..n |->
                  Cardinality({j \in 1..n : compareMinFret(items[j], items[i]) < 0})
                    + Cardinality({j \in 1..(i - 1) : compareMinFret(items[j], items[i]) = 0})
                    + 1]
  IN [k \in 1..n |-> items[CHOOSE i \in 1..n : ranks[i] = k]]

\* null and the empty string are the falsy values a chord root can take;
\* both are written as the empty sequence
Null == <<>>

(***************************************************************************)
(* The filter on the dyad's own interval (3rds, 7ths, tritones).           *)
(***************************************************************************)
comparePriorityThenFret(a, b) ==
  IF b.priority # a.priority THEN b.priority - a.priority
  ELSE minFret(a) - minFret(b)

\* the guide-tone dyads left in the order they came in
keepInputOrder(items) == items

\* Array.prototype.sort with comparePriorityThenFret; stable, as sortDyads
sortByPriorityThenFret(items) ==
  LET n == Len(items)
      ranks == [i \in 1..n |->
                  Cardinality({j \in 1..n : comparePriorityThenFret(items[j], items[i]) < 0})
                    + Cardinality({j \in 1..(i - 1) : comparePriorityThenFret(items[j], items[i]) = 0})
                    + 1]
  IN [k \in 1..n |-> items[CHOOSE i \in 1..n : ranks[i] = k]]

filterGuideTonesByInterval(dyads, fretProximity) ==
  LET guideToneIntervals == {3, 4, 6, 10, 11}
      IsGuideTone(d) == d.interval \in guideToneIntervals
      selected(sorted) ==
        selectNonOverlapping(sorted, 1, Len(sorted), <<>>, fretProximity)
  IN sortByMinFret(selected(sortByPriorityThenFret(SelectSeq(dyads, IsGuideTone))))

(***************************************************************************)
(* Policy A: the filter on the roles third and seventh.                    *)
(***************************************************************************)
\* getGuideToneRole that measures from the note up to the root
getGuideToneRoleFromNote(note, chordRoot) ==
  LET interval == getInterval(note, chordRoot).value
  IN IF interval = 3 \/ interval = 4 THEN "third"
     ELSE IF interval = 10 \/ interval = 11 THEN "seventh"
     ELSE "null"

getGuideToneRole(note, chordRoot) ==
  LET interval == getInterval(chordRoot, note).value
  IN IF interval = 3 \/ interval = 4 THEN "third"
     ELSE IF interval = 10 \/ interval = 11 THEN "seventh"
     ELSE "null"

filterGuideTonesByRole(dyads, chordRoot, fretProximity) ==
  IF chordRoot = Null THEN <<>>
  ELSE LET IsGuideTone(d) ==
             LET role1 == getGuideToneRole(d.pos1.note, chordRoot)
                 role2 == getGuideToneRole(d.pos2.note, chordRoot)
             IN \/ role1 = "third" /\ role2 = "seventh"
                \/ role1 = "seventh" /\ role2 = "third"
           selected(sorted) ==
             selectNonOverlapping(sorted, 1, Len(sorted), <<>>, fretProximity)
       IN selected(sortByMinFret(SelectSeq(dyads, IsGuideTone)))

(***************************************************************************)
(* Policy B: the filter on the summed importance of the two degrees.       *)
(***************************************************************************)
\* getChordDegree that measures from the note up to the root
getChordDegreeFromNote(note, chordRoot) == getInterval(note, chordRoot).value

getChordDegree(note, chordRoot) == getInterval(chordRoot, note).value

getDegreeImportance(degree) ==
  CASE degree \in {3, 4} -> 10
    [] degree \in {10, 11} -> 9
    [] degree = 0 -> 6
    [] degree \in {1, 2} -> 4
    [] degree \in {8, 9} -> 3
    [] degree \in {5, 6} -> 3
    [] degree = 7 -> 2
    [] OTHER -> 0

\* scoreDyad without the test on equal degrees
scoreDyadKeepEqualDegrees(dyad, chordRoot) ==
  LET degree1 == getChordDegree(dyad.pos1.note, chordRoot)
      degree2 == getChordDegree(dyad.pos2.note, chordRoot)
  IN getDegreeImportance(degree1) + getDegreeImportance(degree2)

\* the score of a dyad, or -1 for a dyad the loop skips for equal degrees
scoreDyad(dyad, chordRoot) ==
  LET degree1 == getChordDegree(dyad.pos1.note, chordRoot)
      degree2 == getChordDegree(dyad.pos2.note, chordRoot)
  IN IF degree1 = degree2 THEN 0 - 1
     ELSE getDegreeImportance(degree1) + getDegreeImportance(degree2)

\* compareScoreThenFret with the lowest score first
compareScoreThenFretAscending(a, b) ==
  IF b.score # a.score THEN a.score - b.score
  ELSE minFret(a.dyad) - minFret(b.dyad)

compareScoreThenFret(a, b) ==
  IF b.score # a.score THEN b.score - a.score
  ELSE minFret(a.dyad) - minFret(b.dyad)

\* Array.prototype.sort with compareScoreThenFret; stable, as sortDyads
sortByScoreThenFret(items) ==
  LET n == Len(items)
      ranks == [i \in 1..n |->
                  Cardinality({j \in 1..n : compareScoreThenFret(items[j], items[i]) < 0})
                    + Cardinality({j \in 1..(i - 1) : compareScoreThenFret(items[j], items[i]) = 0})
                    + 1]
  IN [k \in 1..n |-> items[CHOOSE i \in 1..n : ranks[i] = k]]

filterGuideTonesByScore(dyads, chordRoot, fretProximity) ==
  IF chordRoot = Null THEN <<>>
  ELSE LET entries == [k \in 1..Len(dyads) |->
                         [dyad |-> dyads[k], score |-> scoreDyad(dyads[k], chordRoot)]]
           Kept(e) == e.score >= 8
           dyadsOf(scored) == [k \in 1..Len(scored) |-> scored[k].dyad]
           selected(sorted) ==
             selectNonOverlapping(sorted, 1, Len(sorted), <<>>, fretProximity)
       IN sortByMinFret(selected(dyadsOf(sortByScoreThenFret(SelectSeq(entries, Kept)))))

(***************************************************************************)
(* lib/substitutions: substitute chords of a degree.  A degree is the      *)
(* string of its label; a chord symbol is built as a string and parsed     *)
(* again by getChordTones.                                                 *)
(***************************************************************************)
Degrees == {"I", "ii", "iii", "IV", "V", "vi", "vii°"}

DIATONIC_SUBSTITUTIONS ==
  [degree \in Degrees |->
     CASE degree = "I" -> <<"iii", "vi">>
       [] degree = "ii" -> <<"IV">>
       [] degree = "iii" -> <<"I", "vi">>
       [] degree = "IV" -> <<"ii", "vi">>
       [] degree = "V" -> <<"vii°">>
       [] degree = "vi" -> <<"I", "iii">>
       [] degree = "vii°" -> <<"V">>]

DEGREE_SEMITONES ==
  [degree \in Degrees |->
     CASE degree = "I" -> 0
       [] degree = "ii" -> 2
       [] degree = "iii" -> 4
       [] degree = "IV" -> 5
       [] degree = "V" -> 7
       [] degree = "vi" -> 9
       [] degree = "vii°" -> 11]

\* DEGREE_QUALITY with a diminished seventh on the leading tone
DEGREE_QUALITY_Dim7 ==
  [degree \in Degrees |->
     CASE degree \in {"I", "IV"} -> <<>>
       [] degree \in {"ii", "iii", "vi"} -> <<"m">>
       [] degree = "V" -> <<"7">>
       [] degree = "vii°" -> <<"d", "i", "m", "7">>]

DEGREE_QUALITY ==
  [degree \in Degrees |->
     CASE degree = "I" -> <<>>
       [] degree = "ii" -> <<"m">>
       [] degree = "iii" -> <<"m">>
       [] degree = "IV" -> <<>>
       [] degree = "V" -> <<"7">>
       [] degree = "vi" -> <<"m">>
       [] degree = "vii°" -> <<"m", "7", "b", "5">>]

\* getTonicFromChord that transposes up by the offset of the degree
getTonicFromChordUpward(chordRoot, degree) ==
  LET offset == DEGREE_SEMITONES[degree]
  IN transposeNote(chordRoot, offset)

getTonicFromChord(chordRoot, degree) ==
  LET offset == DEGREE_SEMITONES[degree]
  IN transposeNote(chordRoot, 0 - offset)

\* `${root}${quality}`
buildChordFromDegree(tonic, degree) ==
  LET root == transposeNote(tonic, DEGREE_SEMITONES[degree])
      quality == DEGREE_QUALITY[degree]
  IN root \o quality

\* getTritoneSubstitution that moves the root by a fourth
getTritoneSubstitutionFourth(dominantRoot) ==
  LET subRoot == transposeNote(dominantRoot, 5)
      chord == subRoot \o <<"7">>
      tones == getChordTones(chord).value
  IN [chord |-> chord, tones |-> tones]

getTritoneSubstitution(dominantRoot) ==
  LET subRoot == transposeNote(dominantRoot, 6)
      chord == subRoot \o <<"7">>
      tones == getChordTones(chord).value
  IN [chord |-> chord, tones |-> tones]

\* the body of the loop over diatonicSubs
diatonicSubstitution(tonic, subDegree) ==
  LET subChord == buildChordFromDegree(tonic, subDegree)
      subTones == getChordTones(subChord).value
  IN [substituteDegree |-> subDegree, substituteChord |-> subChord,
      substituteTones |-> subTones, type |-> "diatonic"]

\* the entry pushed for the tritone substitute
tritoneSubstitution(chordRoot) ==
  LET entry(tritone) ==
        [substituteDegree |-> "bII7", substituteChord |-> tritone.chord,
         substituteTones |-> tritone.tones, type |-> "tritone"]
  IN entry(getTritoneSubstitution(chordRoot))

\* getSubstitutions that gives the tritone substitute to both dominant-
\* function degrees
getSubstitutionsTritoneForLeadingTone(chordRoot, degree) ==
  LET tonic == getTonicFromChord(chordRoot, degree)
      diatonicSubs == DIATONIC_SUBSTITUTIONS[degree]
      diatonic == [k \in 1..Len(diatonicSubs) |->
                     diatonicSubstitution(tonic, diatonicSubs[k])]
  IN IF degree \in {"V", "vii°"}
     THEN Append(diatonic, tritoneSubstitution(chordRoot))
     ELSE diatonic

\* every degree is a key of DIATONIC_SUBSTITUTIONS, so the `|| []` of the
\* lookup never applies
getSubstitutions(chordRoot, degree) ==
  LET tonic == getTonicFromChord(chordRoot, degree)
      diatonicSubs == DIATONIC_SUBSTITUTIONS[degree]
      diatonic == [k \in 1..Len(diatonicSubs) |->
                     diatonicSubstitution(tonic, diatonicSubs[k])]
  IN IF degree = "V"
     THEN Append(diatonic, tritoneSubstitution(chordRoot))
     ELSE diatonic

\* the inner loop: source and substitutionInfo are set on every dyad
markSubstitution(subDyads, sub) ==
  [k \in 1..Len(subDyads) |->
     ("substitutionInfo" :>
        [substituteChord |-> sub.substituteChord,
         substituteDegree |-> sub.substituteDegree])
     @@ [subDyads[k] EXCEPT
           !.source = IF sub.type = "tritone" THEN "tritone-sub" ELSE "diatonic-sub"]]

\* allSubDyads.push(...subDyads) over the substitutions, levers on
RECURSIVE SubstitutionDyadsWithLevers(_, _, _, _)
SubstitutionDyadsWithLevers(substitutions, maxSlant, tuning, maxFret) ==
  IF substitutions = <<>> THEN <<>>
  ELSE LET sub == Head(substitutions)
       IN markSubstitution(findDyads(sub.substituteTones, maxSlant, tuning, maxFret, TRUE), sub)
            \o SubstitutionDyadsWithLevers(Tail(substitutions), maxSlant, tuning, maxFret)

\* findSubstitutionDyads that searches the substitutes with the levers
findSubstitutionDyadsWithLevers(chordRoot, degree, maxSlant, tuning, maxFret) ==
  SubstitutionDyadsWithLevers(getSubstitutions(chordRoot, degree), maxSlant, tuning, maxFret)

\* allSubDyads.push(...subDyads) over the substitutions
RECURSIVE SubstitutionDyads(_, _, _, _)
SubstitutionDyads(substitutions, maxSlant, tuning, maxFret) ==
  IF substitutions = <<>> THEN <<>>
  ELSE LET sub == Head(substitutions)
       IN markSubstitution(findDyads(sub.substituteTones, maxSlant, tuning, maxFret, FALSE), sub)
            \o SubstitutionDyads(Tail(substitutions), maxSlant, tuning, maxFret)

\* findSubstitutionDyads of the revision with levers
findSubstitutionDyads(chordRoot, degree, maxSlant, tuning, maxFret) ==
  SubstitutionDyads(getSubstitutions(chordRoot, degree), maxSlant, tuning, maxFret)

RECURSIVE SubstitutionDyadsPlain(_, _, _, _)
SubstitutionDyadsPlain(substitutions, maxSlant, tuning, maxFret) ==
  IF substitutions = <<>> THEN <<>>
  ELSE LET sub == Head(substitutions)
       IN markSubstitution(findDyadsPlain(sub.substituteTones, maxSlant, tuning, maxFret), sub)
            \o SubstitutionDyadsPlain(Tail(substitutions), maxSlant, tuning, maxFret)

\* findSubstitutionDyads of the revision without levers
findSubstitutionDyadsPlain(chordRoot, degree, maxSlant, tuning, maxFret) ==
  SubstitutionDyadsPlain(getSubstitutions(chordRoot, degree), maxSlant, tuning, maxFret)

(***************************************************************************)
(* Calls of the lib/music functions on drawn arguments.                    *)
(***************************************************************************)
NoValue == [threw |-> FALSE, value |-> "none"]

\* the application is not mounted while a library function is called alone
NoApp == "none"

Keys(obj) == {obj[i].key : i \in 1..Len(obj)}

\* Strings of at most n characters over an alphabet
RECURSIVE StringsUpTo(_, _)
StringsUpTo(alphabet, n) ==
  IF n = 0 THEN {<<>>}
  ELSE LET shorter == StringsUpTo(alphabet, n - 1)
       IN shorter \cup {Append(s, c) : s \in shorter, c \in alphabet}

RootAttempts ==
  {<<l>> \o a : l \in RootLetters \cup {"H", "h"}, a \in {<<>>, <<"#">>, <<"b">>}}

SuffixSamples ==
  Keys(CHORD_INTERVALS) \cup ObjectPrototypeKeys
    \cup {<<"x">>, <<"7", "7">>, <<"m", "a", "j", "1", "3">>, <<"M", "a", "j">>, <<" ">>}

ChordSymbols ==
  {r \o q : r \in RootAttempts, q \in SuffixSamples}
    \cup StringsUpTo({"C", "e", "H", "#", "b", "m", "7"}, MaxSymbolLen)

NoteSpellings ==
  {<<l>> \o a : l \in RootLetters, a \in {<<>>, <<"#">>, <<"b">>}}
    \cup {<<"H">>, <<"D", "B">>, <<>>}

MusicInputs ==
  {[symbol |-> s] : s \in ChordSymbols}
    \cup {[note1 |-> a, note2 |-> b] : a, b \in NoteSpellings}

MusicInit ==
  /\ pc = "start"
  /\ args \in MusicInputs
  /\ ret = NoValue
  /\ app = NoApp

CallParseChord ==
  /\ pc = "start"
  /\ "symbol" \in DOMAIN args
  /\ pc' = "parseChord"
  /\ ret' = parseChord(args.symbol)
  /\ UNCHANGED <<args, app>>

CallGetChordTones ==
  /\ pc = "start"
  /\ "symbol" \in DOMAIN args
  /\ pc' = "getChordTones"
  /\ ret' = getChordTones(args.symbol)
  /\ UNCHANGED <<args, app>>

CallGetInterval ==
  /\ pc = "start"
  /\ "note1" \in DOMAIN args
  /\ pc' = "getInterval"
  /\ ret' = getInterval(args.note1, args.note2)
  /\ UNCHANGED <<args, app>>

MusicNext == CallParseChord \/ CallGetChordTones \/ CallGetInterval

SpecMusic == MusicInit /\ [][MusicNext]_vars

(***************************************************************************)
(* Calls of the position search and of the dyad search.                    *)
(***************************************************************************)
NoteNames == {NOTES[i] : i \in 1..Len(NOTES)}

PRESET_TUNINGS ==
  { << <<"G">>, <<"B">>, <<"D">>, <<"F", "#">>, <<"A">>, <<"D">> >>,
    << <<"C">>, <<"E">>, <<"G">>, <<"A">>, <<"C">>, <<"E">> >>,
    << <<"B">>, <<"D", "#">>, <<"E">>, <<"F", "#">>, <<"G", "#">>, <<"B">>, <<"E">> >>,
    << <<"D">>, <<"G">>, <<"D">>, <<"G">>, <<"B">>, <<"D">> >>,
    << <<"D">>, <<"A">>, <<"D">>, <<"F", "#">>, <<"A">>, <<"D">> >>,
    << <<"E">>, <<"B">>, <<"E">>, <<"G", "#">>, <<"B">>, <<"E">> >>,
    << <<"E">>, <<"A">>, <<"E">>, <<"A">>, <<"C", "#">>, <<"E">> >> }

\* a custom tuning of twelve strings, one per pitch class
ChromaticTuning == NOTES

\* custom tunings of 2..MaxStrings strings over a few open notes
ShortTuningNotes == {<<"G">>, <<"B">>, <<"F", "#">>}

ShortTunings ==
  UNION {[1..n -> ShortTuningNotes] : n \in 2..MaxStrings}

ChordToneLists ==
  { << <<"C">>, <<"E">>, <<"G">> >>,
    << <<"A">>, <<"C">>, <<"E">>, <<"G">> >>,
    << <<"F", "#">>, <<"A">>, <<"C">> >>,
    << <<"G">>, <<"B">>, <<"D">>, <<"F">> >>,
    << <<"E">>, <<"G", "#">>, <<"B">> >>,
    << <<"D">>, <<"F", "#">>, <<"A">>, <<"C", "#">> >>,
    << <<"A">>, <<"C", "#">>, <<"E">> >>,
    << <<"G">>, <<"B">>, <<"G">> >>,
    << <<"A", "#">> >> }

FretLimits == (0..MaxFret) \cup {FRET_COUNT}

PositionInputs ==
  [note : NoteNames, chordTones : ChordToneLists,
   tuning : PRESET_TUNINGS \cup {ChromaticTuning} \cup ShortTunings,
   maxFret : FretLimits]

PositionsInit ==
  /\ pc = "start"
  /\ args \in PositionInputs
  /\ ret = NoValue
  /\ app = NoApp

CallFindNotePositions ==
  /\ pc = "start"
  /\ "note" \in DOMAIN args
  /\ pc' = "findNotePositions"
  /\ ret' = Return(findNotePositions(args.note, args.tuning, args.maxFret))
  /\ UNCHANGED <<args, app>>

CallFindNotePositionsWithLevers ==
  /\ pc = "start"
  /\ "note" \in DOMAIN args
  /\ pc' = "findNotePositionsWithLevers"
  /\ ret' = Return(findNotePositionsWithLevers(args.note, args.chordTones,
                     LEVER_CONFIG, args.tuning, args.maxFret))
  /\ UNCHANGED <<args, app>>

PositionsNext == CallFindNotePositions \/ CallFindNotePositionsWithLevers

SpecPositions == PositionsInit /\ [][PositionsNext]_vars

DyadInputs ==
  [chordTones : ChordToneLists, maxSlant : 0..MaxSlant,
   tuning : ShortTunings, maxFret : 0..MaxFret, useLevers : BOOLEAN]
    \cup [chordTones : ChordToneLists, maxSlant : {1},
          tuning : {LAP_STEEL_TUNING}, maxFret : {FRET_COUNT},
          useLevers : BOOLEAN]

DyadsInit ==
  /\ pc = "start"
  /\ args \in DyadInputs
  /\ ret = NoValue
  /\ app = NoApp

CallFindDyads ==
  /\ pc = "start"
  /\ "useLevers" \in DOMAIN args
  /\ pc' = "findDyads"
  /\ ret' = Return(findDyads(args.chordTones, args.maxSlant, args.tuning,
                             args.maxFret, args.useLevers))
  /\ UNCHANGED <<args, app>>

CallFindDyadsPlain ==
  /\ pc = "start"
  /\ "useLevers" \in DOMAIN args
  /\ ~args.useLevers
  /\ pc' = "findDyadsPlain"
  /\ ret' = Return(findDyadsPlain(args.chordTones, args.maxSlant, args.tuning,
                                  args.maxFret))
  /\ UNCHANGED <<args, app>>

DyadsNext == CallFindDyads \/ CallFindDyadsPlain

SpecDyads == DyadsInit /\ [][DyadsNext]_vars

(***************************************************************************)
(* Calls of the three guide-tone filters.  The dyad lists are the results  *)
(* of the dyad searches on the default tuning, and every list of at most   *)
(* MaxListLen dyads, in any order and with repetitions, over the dyads of  *)
(* a small search.                                                         *)
(***************************************************************************)
RECURSIVE ListsUpTo(_, _)
ListsUpTo(items, n) ==
  IF n = 0 THEN {<<>>}
  ELSE LET shorter == ListsUpTo(items, n - 1)
       IN shorter \cup {Append(s, x) : s \in shorter, x \in items}

Range(seq) == {seq[k] : k \in 1..Len(seq)}

\* D F# A on three strings D F# D up to fret 4: two roots on one fret, two
\* thirds on one fret, root with third, third with fifth
SmallSearchDyads ==
  Range(findDyads(<< <<"D">>, <<"F", "#">>, <<"A">> >>, 1,
                  << <<"D">>, <<"F", "#">>, <<"D">> >>, 4, FALSE))

FilterRoots == {Null, <<"D">>, <<"D", "#">>, <<"A">>}

FilterProximities == {0, 2, 3}

\* Cmaj7, G7, Dmaj7 and Am7
SeventhChords ==
  { << <<"C">>, <<"E">>, <<"G">>, <<"B">> >>,
    << <<"G">>, <<"B">>, <<"D">>, <<"F">> >>,
    << <<"D">>, <<"F", "#">>, <<"A">>, <<"C", "#">> >>,
    << <<"A">>, <<"C">>, <<"E">>, <<"G">> >> }

\* what the filters are called with: a list of dyads, or the chord whose
\* dyads on the default tuning are searched first
FilterInputs ==
  [search : {"none"}, chordTones : {<<>>},
   dyads : ListsUpTo(SmallSearchDyads, MaxListLen),
   chordRoot : FilterRoots, fretProximity : FilterProximities]
    \cup {[search |-> "findDyads", chordTones |-> c, useLevers |-> u,
           chordRoot |-> Head(c), fretProximity |-> 2] :
            c \in SeventhChords, u \in BOOLEAN}
    \cup {[search |-> "findDyadsPlain", chordTones |-> c, useLevers |-> FALSE,
           chordRoot |-> Head(c), fretProximity |-> 2] : c \in SeventhChords}
    \cup {[search |-> "findDyadsUntagged", chordTones |-> c, useLevers |-> FALSE,
           chordRoot |-> Head(c), fretProximity |-> 3] : c \in SeventhChords}

FilterInit ==
  /\ pc = "start"
  /\ args \in FilterInputs
  /\ ret = NoValue
  /\ app = NoApp

\* directDyads of the application: findDyads(chordTones, 1, tuning), of the
\* revision at hand
directDyads(search, chordTones, useLevers) ==
  CASE search = "findDyads" ->
         findDyads(chordTones, 1, LAP_STEEL_TUNING, FRET_COUNT, useLevers)
    [] search = "findDyadsPlain" ->
         findDyadsPlain(chordTones, 1, LAP_STEEL_TUNING, FRET_COUNT)
    [] search = "findDyadsUntagged" ->
         findDyadsUntagged(chordTones, 1, LAP_STEEL_TUNING, FRET_COUNT)

\* the dyads of the chord are searched; they are what the filter is given
SearchDirectDyads ==
  /\ pc = "start"
  /\ "useLevers" \in DOMAIN args
  /\ args' = [search |-> args.search, chordTones |-> args.chordTones,
              dyads |-> directDyads(args.search, args.chordTones, args.useLevers),
              chordRoot |-> args.chordRoot, fretProximity |-> args.fretProximity]
  /\ UNCHANGED <<pc, ret, app>>

\* the filter on intervals reads d.interval and d.priority
CallFilterGuideTonesByInterval ==
  /\ pc = "start"
  /\ "dyads" \in DOMAIN args
  /\ args.search \in {"none", "findDyads"}
  /\ pc' = "filterGuideTonesByInterval"
  /\ ret' = Return(filterGuideTonesByInterval(args.dyads, args.fretProximity))
  /\ UNCHANGED <<args, app>>

CallFilterGuideTonesByRole ==
  /\ pc = "start"
  /\ "dyads" \in DOMAIN args
  /\ pc' = "filterGuideTonesByRole"
  /\ ret' = Return(filterGuideTonesByRole(args.dyads, args.chordRoot,
                                          args.fretProximity))
  /\ UNCHANGED <<args, app>>

CallFilterGuideTonesByScore ==
  /\ pc = "start"
  /\ "dyads" \in DOMAIN args
  /\ pc' = "filterGuideTonesByScore"
  /\ ret' = Return(filterGuideTonesByScore(args.dyads, args.chordRoot,
                                           args.fretProximity))
  /\ UNCHANGED <<args, app>>

\* dyadsOverlap on every ordered pair of a list of dyads
CallDyadsOverlap ==
  /\ pc = "start"
  /\ "dyads" \in DOMAIN args
  /\ args.search = "none"
  /\ pc' = "dyadsOverlap"
  /\ ret' = Return([i \in 1..Len(args.dyads) |->
                     [j \in 1..Len(args.dyads) |->
                        dyadsOverlap(args.dyads[i], args.dyads[j],
                                     args.fretProximity)]])
  /\ UNCHANGED <<args, app>>

\* each dyad alone through the filter on roles and the filter on scores:
\* a list of one dyad comes back whole exactly when the dyad passes the test
CallFilterStages ==
  /\ pc = "start"
  /\ "dyads" \in DOMAIN args
  /\ pc' = "filterStages"
  /\ ret' = Return([k \in 1..Len(args.dyads) |->
                     [byRole |-> filterGuideTonesByRole(<<args.dyads[k]>>,
                                   args.chordRoot, args.fretProximity),
                      byScore |-> filterGuideTonesByScore(<<args.dyads[k]>>,
                                    args.chordRoot, args.fretProximity)]])
  /\ UNCHANGED <<args, app>>

FilterNext ==
  \/ SearchDirectDyads
  \/ CallFilterStages
  \/ CallDyadsOverlap
  \/ CallFilterGuideTonesByInterval
  \/ CallFilterGuideTonesByRole
  \/ CallFilterGuideTonesByScore

SpecFilter == FilterInit /\ [][FilterNext]_vars

(***************************************************************************)
(* Calls of lib/substitutions and of the substitute dyad searches.         *)
(***************************************************************************)
SubstitutionInputs ==
  [chordRoot : NoteNames, degree : Degrees]
    \cup [dominantRoot : NoteNames]
    \cup [chordRoot : NoteNames, degree : Degrees, maxSlant : {1},
          tuning : ShortTunings, maxFret : {MaxFret}]
    \cup [chordRoot : {<<"G">>}, degree : Degrees, maxSlant : {1},
          tuning : {LAP_STEEL_TUNING}, maxFret : {FRET_COUNT}]

SubstitutionsInit ==
  /\ pc = "start"
  /\ args \in SubstitutionInputs
  /\ ret = NoValue
  /\ app = NoApp

CallGetTonicFromChord ==
  /\ pc = "start"
  /\ DOMAIN args = {"chordRoot", "degree"}
  /\ pc' = "getTonicFromChord"
  /\ ret' = Return(getTonicFromChord(args.chordRoot, args.degree))
  /\ UNCHANGED <<args, app>>

CallGetSubstitutions ==
  /\ pc = "start"
  /\ DOMAIN args = {"chordRoot", "degree"}
  /\ pc' = "getSubstitutions"
  /\ ret' = Return(getSubstitutions(args.chordRoot, args.degree))
  /\ UNCHANGED <<args, app>>

CallGetTritoneSubstitution ==
  /\ pc = "start"
  /\ "dominantRoot" \in DOMAIN args
  /\ pc' = "getTritoneSubstitution"
  /\ ret' = Return(getTritoneSubstitution(args.dominantRoot))
  /\ UNCHANGED <<args, app>>

CallFindSubstitutionDyads ==
  /\ pc = "start"
  /\ "degree" \in DOMAIN args
  /\ "tuning" \in DOMAIN args
  /\ pc' = "findSubstitutionDyads"
  /\ ret' = Return(findSubstitutionDyads(args.chordRoot, args.degree,
                     args.maxSlant, args.tuning, args.maxFret))
  /\ UNCHANGED <<args, app>>

CallFindSubstitutionDyadsPlain ==
  /\ pc = "start"
  /\ "degree" \in DOMAIN args
  /\ "tuning" \in DOMAIN args
  /\ pc' = "findSubstitutionDyadsPlain"
  /\ ret' = Return(findSubstitutionDyadsPlain(args.chordRoot, args.degree,
                     args.maxSlant, args.tuning, args.maxFret))
  /\ UNCHANGED <<args, app>>

SubstitutionsNext ==
  \/ CallGetTonicFromChord
  \/ CallGetSubstitutions
  \/ CallGetTritoneSubstitution
  \/ CallFindSubstitutionDyads
  \/ CallFindSubstitutionDyadsPlain

SpecSubstitutions == SubstitutionsInit /\ [][SubstitutionsNext]_vars

(***************************************************************************)
(* The application: App with its ChordInput and TuningInput.  The value of *)
(* app holds the React state of the three components.  A user event is one *)
(* action: the handler, the state updates it asks for and the effects      *)
(* whose dependencies changed, which React runs before it handles the next *)
(* event.  The lists App derives from its state with useMemo are operators *)
(* on the state.  showStraight and showSlant are passed to the Fretboard   *)
(* next to the dyad list and do not change it; they are left out.          *)
(***************************************************************************)
\* the characters \s matches in the texts that are typed here
Whitespace == {" "}

\* String.prototype.trim
trim(text) ==
  LET kept == {i \in 1..Len(text) : text[i] \notin Whitespace}
  IN IF kept = {} THEN <<>>
     ELSE SubSeq(text, CHOOSE i \in kept : \A j \in kept : i <= j,
                       CHOOSE i \in kept : \A j \in kept : j <= i)

\* input.trim().split(/[\s,]+/).filter(Boolean): the maximal runs of
\* characters that are neither whitespace nor comma
splitParts(input) ==
  LET Separator(i) == input[i] \in Whitespace \cup {","}
      Starts(i) == ~Separator(i) /\ (i = 1 \/ Separator(i - 1))
      starts == SelectSeq([i \in 1..Len(input) |-> i], Starts)
      end(i) == CHOOSE j \in i..Len(input) :
                   /\ \A k \in i..j : ~Separator(k)
                   /\ j = Len(input) \/ Separator(j + 1)
  IN [k \in 1..Len(starts) |-> SubSeq(input, starts[k], end(starts[k]))]

\* parts.map(part => normalizeNote(part)), a throw rethrown as an error
\* that names the part
parseCustomTuning(input) ==
  LET notes(parts) ==
        IF \E k \in 1..Len(parts) : normalizeNote(parts[k]).threw
        THEN Throw("Invalid note")
        ELSE Return([k \in 1..Len(parts) |-> normalizeNote(parts[k]).value])
  IN notes(splitParts(input))

\* Array.prototype.join(' ')
RECURSIVE joinNotes(_)
joinNotes(notes) ==
  IF Len(notes) = 0 THEN <<>>
  ELSE IF Len(notes) = 1 THEN notes[1]
  ELSE notes[1] \o <<" ">> \o joinNotes(Tail(notes))

\* setError(null): no message is shown
NoError == "none"

\* A preset is chosen by its name; the seven names stand for seven
\* different tunings, so a name is written as the tuning it stands for.
DEFAULT_TUNING_NAME == LAP_STEEL_TUNING

\* onChordChange of App: the four setters of handleChordChange
handleChordChange(state, tones, name, deg, root) ==
  [state EXCEPT !.chordTones = tones, !.chordName = name,
                !.degree = deg, !.chordRoot = root]

\* the effect of ChordInput that leaves App as it is when the chord throws
chordEffectKeepChord(a) ==
  LET trimmed == trim(a.chordInput.input)
      degree == a.chordInput.degree
      parsed(root, tones) ==
        IF root.threw
        THEN [a EXCEPT !.chordInput.error = root.error]
        ELSE IF tones.threw
        THEN [a EXCEPT !.chordInput.error = tones.error]
        ELSE [a EXCEPT !.chordInput.error = NoError,
                       !.state = handleChordChange(a.state, tones.value,
                                   trimmed \o <<" (", degree, ")">>, degree,
                                   root.value.root)]
  IN IF trimmed = <<>>
     THEN [a EXCEPT !.chordInput.error = NoError,
                    !.state = handleChordChange(a.state, <<>>, <<>>, degree, Null)]
     ELSE parsed(parseChord(trimmed), getChordTones(trimmed))

\* the effect of ChordInput on [input, degree, onChordChange]
chordEffect(a) ==
  LET trimmed == trim(a.chordInput.input)
      degree == a.chordInput.degree
      parsed(root, tones) ==
        IF root.threw
        THEN [a EXCEPT !.chordInput.error = root.error,
                       !.state = handleChordChange(a.state, <<>>, <<>>, degree, Null)]
        ELSE IF tones.threw
        THEN [a EXCEPT !.chordInput.error = tones.error,
                       !.state = handleChordChange(a.state, <<>>, <<>>, degree, Null)]
        ELSE [a EXCEPT !.chordInput.error = NoError,
                       !.state = handleChordChange(a.state, tones.value,
                                   trimmed \o <<" (", degree, ")">>, degree,
                                   root.value.root)]
  IN IF trimmed = <<>>
     THEN [a EXCEPT !.chordInput.error = NoError,
                    !.state = handleChordChange(a.state, <<>>, <<>>, degree, Null)]
     ELSE parsed(parseChord(trimmed), getChordTones(trimmed))

\* the effect of TuningInput on [selectedPreset, isCustom, onTuningChange];
\* every name that can be selected is a key of PRESET_TUNINGS
presetEffect(a) ==
  IF ~a.tuningInput.isCustom
  THEN [a EXCEPT !.state.tuning = a.tuningInput.selectedPreset,
                 !.tuningInput.error = NoError]
  ELSE a

\* the effect of TuningInput on [customTuning, isCustom, onTuningChange]
customEffect(a) ==
  LET applied(notes) ==
        IF notes.threw THEN [a EXCEPT !.tuningInput.error = notes.error]
        ELSE IF Len(notes.value) < 2
        THEN [a EXCEPT !.tuningInput.error = "Need at least 2 strings"]
        ELSE IF Len(notes.value) > 12
        THEN [a EXCEPT !.tuningInput.error = "Maximum 12 strings"]
        ELSE [a EXCEPT !.state.tuning = notes.value, !.tuningInput.error = NoError]
  IN IF a.tuningInput.isCustom /\ a.tuningInput.customTuning # <<>>
     THEN applied(parseCustomTuning(a.tuningInput.customTuning))
     ELSE a

\* directDyads of App
appDirectDyads(state) ==
  IF Len(state.chordTones) = 0 THEN <<>>
  ELSE findDyadsPlain(state.chordTones, 1, state.tuning, FRET_COUNT)

\* substitutionDyads of App
appSubstitutionDyads(state) ==
  IF ~state.showSubstitutions \/ state.chordRoot = Null \/ Len(state.chordTones) = 0
  THEN <<>>
  ELSE findSubstitutionDyadsPlain(state.chordRoot, state.degree, 1, state.tuning,
                                  FRET_COUNT)

\* dyads of App, the list handed to the Fretboard; fretProximity takes its
\* default
appDyads(state) ==
  IF state.displayMode = "guide"
  THEN filterGuideTonesByRole(appDirectDyads(state), state.chordRoot, 2)
         \o appSubstitutionDyads(state)
  ELSE appDirectDyads(state) \o appSubstitutionDyads(state)

\* texts typed into the chord field: "", " ", "C", "G7", " Am ", "H", "Cx"
\* and "C__proto__"
ChordTexts ==
  { <<>>, <<" ">>, <<"C">>, <<"G", "7">>, <<" ", "A", "m", " ">>, <<"H">>,
    <<"C", "x">>, <<"C", "_", "_", "p", "r", "o", "t", "o", "_", "_">> }

\* a custom tuning text of thirteen strings
ThirteenStrings == joinNotes([k \in 1..13 |-> <<"C">>])

\* texts typed into the custom tuning field: "", "G", "G B", "g,bb  D",
\* "G H", "G __proto__", ", " and thirteen notes
CustomTuningTexts ==
  { <<>>, <<"G">>, <<"G", " ", "B">>,
    <<"g", ",", "b", "b", " ", " ", "D">>,
    <<"G", " ", "H">>,
    <<"G", " ", "_", "_", "p", "r", "o", "t", "o", "_", "_">>,
    <<",", " ">>, ThirteenStrings }

DisplayModes == {"all", "guide"}

\* the state once the effects of the first render have run
AppInit ==
  /\ pc = "app"
  /\ args = NoValue
  /\ ret = NoValue
  /\ app = [chordInput |-> [input |-> <<"C">>, degree |-> "I", error |-> NoError],
            tuningInput |-> [selectedPreset |-> DEFAULT_TUNING_NAME,
                             customTuning |-> <<>>, isCustom |-> FALSE,
                             error |-> NoError],
            state |-> [tuning |-> LAP_STEEL_TUNING,
                       chordTones |-> << <<"C">>, <<"E">>, <<"G">> >>,
                       chordName |-> <<"C", " (", "I", ")">>,
                       chordRoot |-> <<"C">>, degree |-> "I",
                       showSubstitutions |-> TRUE, displayMode |-> "all"]]

\* the chord field changes: setInput, then the chord effect
TypeChord ==
  \E text \in ChordTexts :
    /\ pc = "app"
    /\ text # app.chordInput.input
    /\ app' = chordEffect([app EXCEPT !.chordInput.input = text])
    /\ UNCHANGED <<pc, args, ret>>

\* a degree button is clicked: setDegree, then the chord effect
SetDegree ==
  \E d \in Degrees :
    /\ pc = "app"
    /\ d # app.chordInput.degree
    /\ app' = chordEffect([app EXCEPT !.chordInput.degree = d])
    /\ UNCHANGED <<pc, args, ret>>

\* handlePresetChange with the name of a preset, then the preset effect
SelectPreset ==
  \E preset \in PRESET_TUNINGS :
    /\ pc = "app"
    /\ app.tuningInput.isCustom \/ preset # app.tuningInput.selectedPreset
    /\ app' = presetEffect([app EXCEPT !.tuningInput.isCustom = FALSE,
                                       !.tuningInput.selectedPreset = preset])
    /\ UNCHANGED <<pc, args, ret>>

\* handlePresetChange('custom'), then the custom effect
SelectCustom ==
  /\ pc = "app"
  /\ ~app.tuningInput.isCustom
  /\ app' = customEffect([app EXCEPT !.tuningInput.isCustom = TRUE,
                                     !.tuningInput.customTuning =
                                        joinNotes(app.tuningInput.selectedPreset)])
  /\ UNCHANGED <<pc, args, ret>>

\* the custom tuning field changes: setCustomTuning, then the custom effect
TypeCustomTuning ==
  \E text \in CustomTuningTexts :
    /\ pc = "app"
    /\ app.tuningInput.isCustom
    /\ text # app.tuningInput.customTuning
    /\ app' = customEffect([app EXCEPT !.tuningInput.customTuning = text])
    /\ UNCHANGED <<pc, args, ret>>

\* the substitutions checkbox changes
SetShowSubstitutions ==
  /\ pc = "app"
  /\ app' = [app EXCEPT !.state.showSubstitutions = ~app.state.showSubstitutions]
  /\ UNCHANGED <<pc, args, ret>>

\* the other display mode is chosen
SetDisplayMode ==
  \E mode \in DisplayModes :
    /\ pc = "app"
    /\ mode # app.state.displayMode
    /\ app' = [app EXCEPT !.state.displayMode = mode]
    /\ UNCHANGED <<pc, args, ret>>

AppNext ==
  \/ TypeChord
  \/ SetDegree
  \/ SelectPreset
  \/ SelectCustom
  \/ TypeCustomTuning
  \/ SetShowSubstitutions
  \/ SetDisplayMode

SpecApp == AppInit /\ [][AppNext]_vars

(***************************************************************************)
(* Vocabulary of the properties: pitch classes by music theory, without    *)
(* the tables and functions of lib/music.                                  *)
(***************************************************************************)
\* semitone of a natural letter above C
LetterPitch(letter) ==
  CASE letter \in {"C", "c"} -> 0
    [] letter \in {"D", "d"} -> 2
    [] letter \in {"E", "e"} -> 4
    [] letter \in {"F", "f"} -> 5
    [] letter \in {"G", "g"} -> 7
    [] letter \in {"A", "a"} -> 9
    [] letter \in {"B", "b"} -> 11

\* The accepted spellings: a letter A-G in either case, alone or with # or
\* b, except E# and B#, which name no entry of the note tables
AcceptedSpelling(sp) ==
  /\ Len(sp) \in {1, 2}
  /\ sp[1] \in RootLetters
  /\ Len(sp) = 2 => /\ sp[2] \in {"#", "b"}
                    /\ ~(sp[1] \in {"E", "e", "B", "b"} /\ sp[2] = "#")

\* the sharp names and flat aliases as the tables write them
TableSpelling(sp) == AcceptedSpelling(sp) /\ sp[1] \in {"A", "B", "C", "D", "E", "F", "G"}

SpellingPitch(sp) ==
  (LetterPitch(sp[1]) + (IF Len(sp) = 1 THEN 0 ELSE IF sp[2] = "#" THEN 1 ELSE 11)) % 12

PitchName(k) ==
  CASE k = 0 -> <<"C">> [] k = 1 -> <<"C", "#">> [] k = 2 -> <<"D">>
    [] k = 3 -> <<"D", "#">> [] k = 4 -> <<"E">> [] k = 5 -> <<"F">>
    [] k = 6 -> <<"F", "#">> [] k = 7 -> <<"G">> [] k = 8 -> <<"G", "#">>
    [] k = 9 -> <<"A">> [] k = 10 -> <<"A", "#">> [] k = 11 -> <<"B">>

MinFretOf(d) == IF d.pos1.fret <= d.pos2.fret THEN d.pos1.fret ELSE d.pos2.fret

DyadCall == pc \in {"findDyads", "findDyadsPlain"}

Returned == ret.value

(***************************************************************************)
(* C1: every dyad findDyads returns, with or without levers, has its       *)
(* lower string first: pos1.string < pos2.string, so the two positions are *)
(* never on one string.                                                    *)
(***************************************************************************)
C1_LowerStringFirst ==
  DyadCall =>
    \A k \in 1..Len(Returned) : Returned[k].pos1.string < Returned[k].pos2.string

\* a lever-aware search returned a dyad that uses a lever-bent position
C1_Witness ==
  /\ pc = "findDyads"
  /\ args.useLevers
  /\ \E k \in 1..Len(Returned) :
       /\ Returned[k].source = "lever"
       /\ Returned[k].pos1.string < Returned[k].pos2.string

(***************************************************************************)
(* C2: every dyad findDyads returns has |pos1.fret - pos2.fret| <=         *)
(* maxSlant, and is tagged straight exactly when the frets are equal and   *)
(* slant otherwise.                                                        *)
(***************************************************************************)
C2_SlantBound ==
  DyadCall =>
    \A k \in 1..Len(Returned) :
      LET d == Returned[k]
          diff == IF d.pos1.fret >= d.pos2.fret THEN d.pos1.fret - d.pos2.fret
                  ELSE d.pos2.fret - d.pos1.fret
      IN /\ diff <= args.maxSlant
         /\ d.type \in {"straight", "slant"}
         /\ d.type = "straight" <=> d.pos1.fret = d.pos2.fret

\* a search with maxSlant 1 returned a straight dyad and a slant of one fret
C2_Witness ==
  /\ DyadCall
  /\ args.maxSlant = 1
  /\ \E k \in 1..Len(Returned) : Returned[k].type = "straight"
  /\ \E k \in 1..Len(Returned) :
       /\ Returned[k].type = "slant"
       /\ Returned[k].pos1.fret - Returned[k].pos2.fret \in {1, 0 - 1}

(***************************************************************************)
(* C3: the dyads findDyads returns are in ascending order of               *)
(* min(pos1.fret, pos2.fret) and, for equal minimum fret, of pos1.string.  *)
(***************************************************************************)
C3_Ordered ==
  DyadCall =>
    \A k \in 1..(Len(Returned) - 1) :
      LET d == Returned[k]
          e == Returned[k + 1]
      IN \/ MinFretOf(d) < MinFretOf(e)
         \/ MinFretOf(d) = MinFretOf(e) /\ d.pos1.string <= e.pos1.string

\* a result in which the minimum fret rises and, within one minimum fret,
\* the lower string rises
C3_Witness ==
  /\ DyadCall
  /\ \E k \in 1..(Len(Returned) - 1) : MinFretOf(Returned[k]) < MinFretOf(Returned[k + 1])
  /\ \E k \in 1..(Len(Returned) - 1) :
       /\ MinFretOf(Returned[k]) = MinFretOf(Returned[k + 1])
       /\ Returned[k].pos1.string < Returned[k + 1].pos1.string

(***************************************************************************)
(* C4: in the search without levers every position of every returned dyad  *)
(* is a place where a chord tone sounds: its note is one of chordTones,    *)
(* its fret is in 0..maxFret, its string is a string of the tuning, and    *)
(* the pitch class of its note is the open string raised by its fret.      *)
(***************************************************************************)
PlainCall == pc = "findDyadsPlain" \/ (pc = "findDyads" /\ ~args.useLevers)

RealPosition(p) ==
  /\ \E i \in 1..Len(args.chordTones) : args.chordTones[i] = p.note
  /\ 0 <= p.fret /\ p.fret <= args.maxFret
  /\ 0 <= p.string /\ p.string < Len(args.tuning)
  /\ SpellingPitch(p.note) = (SpellingPitch(args.tuning[p.string + 1]) + p.fret) % 12

C4_RealPositions ==
  PlainCall =>
    \A k \in 1..Len(Returned) :
      RealPosition(Returned[k].pos1) /\ RealPosition(Returned[k].pos2)

\* a plain search returned a dyad above the twelfth fret, where the pitch
\* class has wrapped around the octave
C4_Witness ==
  /\ pc = "findDyadsPlain"
  /\ \E k \in 1..Len(Returned) :
       /\ Returned[k].pos1.fret > 12
       /\ Returned[k].pos1.fret # Returned[k].pos2.fret

(***************************************************************************)
(* C6: with maxFret = 24 the position search returns, for every tuning and *)
(* every pitch class, at least one position on every string of the tuning, *)
(* without levers and with levers (an engaged lever only removes fret 0).  *)
(***************************************************************************)
PositionCall == pc \in {"findNotePositions", "findNotePositionsWithLevers"}

C6_EveryStringReached ==
  (PositionCall /\ args.maxFret = FRET_COUNT /\ Len(args.tuning) \in 2..12) =>
    \A string \in 0..(Len(args.tuning) - 1) :
       \E k \in 1..Len(Returned) : Returned[k].string = string

\* the lever of string 3 is engaged and the note searched is the open note
\* of string 3: fret 0 is gone, the note is still found at fret 12
C6_Witness ==
  /\ pc = "findNotePositionsWithLevers"
  /\ args.maxFret = FRET_COUNT
  /\ Len(args.tuning) = 12
  /\ args.note = args.tuning[4]
  /\ \E i \in 1..Len(args.chordTones) : args.chordTones[i] = <<"G">>
  /\ ~\E k \in 1..Len(Returned) : Returned[k].string = 3 /\ Returned[k].fret = 0
  /\ \E k \in 1..Len(Returned) : Returned[k].string = 3 /\ Returned[k].fret = 12

(***************************************************************************)
(* C7: in findNotePositionsWithLevers, a lever whose bent note is a chord  *)
(* tone leaves no unbent fret-0 position on its string; the bent position  *)
(* (lever string, fret 0, isLeverBent) is returned exactly when the note   *)
(* searched is the bent note and the bent note is a chord tone; and when   *)
(* no bent note is a chord tone the positions are those of                 *)
(* findNotePositions, none of them bent.                                   *)
(***************************************************************************)
LeverSet == {LEVER_CONFIG[i] : i \in 1..Len(LEVER_CONFIG)}

BentIsChordTone(lever) ==
  \E i \in 1..Len(args.chordTones) :
     SpellingPitch(args.chordTones[i]) = SpellingPitch(lever.bentNote)

Unflagged(positions) ==
  [k \in 1..Len(positions) |->
     [string |-> positions[k].string, fret |-> positions[k].fret,
      note |-> positions[k].note]]

C7_LeverReplacesOpen ==
  pc = "findNotePositionsWithLevers" =>
    /\ \A lever \in LeverSet :
         /\ BentIsChordTone(lever) =>
              ~\E k \in 1..Len(Returned) :
                 /\ Returned[k].string = lever.stringIndex
                 /\ Returned[k].fret = 0
                 /\ ~Returned[k].isLeverBent
         /\ (\E k \in 1..Len(Returned) :
               /\ Returned[k].string = lever.stringIndex
               /\ Returned[k].fret = 0
               /\ Returned[k].isLeverBent)
            <=> (/\ SpellingPitch(args.note) = SpellingPitch(lever.bentNote)
                 /\ BentIsChordTone(lever))
    /\ (\A lever \in LeverSet : ~BentIsChordTone(lever)) =>
         /\ Unflagged(Returned) = findNotePositions(args.note, args.tuning, args.maxFret)
         /\ \A k \in 1..Len(Returned) : ~Returned[k].isLeverBent

\* G is searched in a chord that holds G on the default tuning: the bent
\* position of string 3 is returned next to the open G of string 0
C7_Witness ==
  /\ pc = "findNotePositionsWithLevers"
  /\ args.note = <<"G">>
  /\ args.tuning = LAP_STEEL_TUNING
  /\ \E k \in 1..Len(Returned) :
       Returned[k].string = 3 /\ Returned[k].fret = 0 /\ Returned[k].isLeverBent
  /\ \E k \in 1..Len(Returned) :
       Returned[k].string = 0 /\ Returned[k].fret = 0 /\ ~Returned[k].isLeverBent

(***************************************************************************)
(* C8: for accepted spellings a and b, getInterval(a, b) is in 0..11, is   *)
(* (pitch(b) - pitch(a)) mod 12, getInterval(b, a) is (12 - it) mod 12,    *)
(* and it is 0 exactly when a and b are the same pitch class.              *)
(***************************************************************************)
C8_IntervalInverse ==
  (pc = "getInterval" /\ AcceptedSpelling(args.note1) /\ AcceptedSpelling(args.note2)) =>
    /\ ~ret.threw
    /\ Returned \in 0..11
    /\ Returned = (SpellingPitch(args.note2) + 12 - SpellingPitch(args.note1)) % 12
    /\ getInterval(args.note2, args.note1) = Return((12 - Returned) % 12)
    /\ Returned = 0 <=> SpellingPitch(args.note1) = SpellingPitch(args.note2)

\* from Bb up to F is a fifth; the subtraction of the semitones is negative
C8_Witness ==
  /\ pc = "getInterval"
  /\ args.note1 = <<"B", "b">>
  /\ args.note2 = <<"F">>
  /\ ret = Return(7)

(***************************************************************************)
(* C9: for a root spelled with one of the 12 sharp names or 7 flat aliases *)
(* and a suffix of the chord-quality table, getChordTones(root + suffix)   *)
(* returns, in table order, the pitch class (semitone(root) + offset) mod  *)
(* 12 of each offset of the suffix; C gives C E G, Am7 gives A C E G and   *)
(* F#dim gives F# A C.                                                     *)
(***************************************************************************)
TableOffsets(suffix) ==
  CHORD_INTERVALS[CHOOSE i \in 1..Len(CHORD_INTERVALS) : CHORD_INTERVALS[i].key = suffix].value

ExpectedTones(root, suffix) ==
  [i \in 1..Len(TableOffsets(suffix)) |->
     PitchName((SpellingPitch(root) + TableOffsets(suffix)[i]) % 12)]

C9_ChordTones ==
  pc = "getChordTones" =>
    /\ \A n \in {1, 2} :
         (/\ n <= Len(args.symbol)
          /\ TableSpelling(SubSeq(args.symbol, 1, n))
          /\ SubSeq(args.symbol, n + 1, Len(args.symbol)) \in Keys(CHORD_INTERVALS))
         => ret = Return(ExpectedTones(SubSeq(args.symbol, 1, n),
                                       SubSeq(args.symbol, n + 1, Len(args.symbol))))
    /\ args.symbol = <<"C">> => ret = Return(<< <<"C">>, <<"E">>, <<"G">> >>)
    /\ args.symbol = <<"A", "m", "7">>
         => ret = Return(<< <<"A">>, <<"C">>, <<"E">>, <<"G">> >>)
    /\ args.symbol = <<"F", "#", "d", "i", "m">>
         => ret = Return(<< <<"F", "#">>, <<"A">>, <<"C">> >>)

\* a ninth chord on a flat root: the offset 14 is reduced to a pitch class
C9_Witness ==
  /\ pc = "getChordTones"
  /\ args.symbol = <<"B", "b", "m", "9">>
  /\ ret = Return(<< <<"A", "#">>, <<"C", "#">>, <<"F">>, <<"G", "#">>, <<"C">> >>)

(***************************************************************************)
(* C10: parseChord and getChordTones throw for every symbol that is not an *)
(* accepted root spelling followed by a key of the quality table, and for  *)
(* an accepted root alone they do not throw and getChordTones returns the  *)
(* major triad of the root.                                                *)
(***************************************************************************)
WellFormedSymbol(symbol) ==
  \E n \in {1, 2} :
     /\ n <= Len(symbol)
     /\ AcceptedSpelling(SubSeq(symbol, 1, n))
     /\ SubSeq(symbol, n + 1, Len(symbol)) \in Keys(CHORD_INTERVALS)

C10_RejectsMalformed ==
  pc \in {"parseChord", "getChordTones"} =>
    /\ ~WellFormedSymbol(args.symbol) => ret.threw
    /\ AcceptedSpelling(args.symbol) =>
         /\ ~ret.threw
         /\ pc = "getChordTones" =>
              Returned = [i \in 1..3 |->
                 PitchName((SpellingPitch(args.symbol) + <<0, 4, 7>>[i]) % 12)]

(***************************************************************************)
(* Vocabulary of the filter properties: intervals from the chord root and  *)
(* overlap, stated on pitch classes and coordinates.                       *)
(***************************************************************************)
FromRoot(note) == (SpellingPitch(note) + 12 - SpellingPitch(args.chordRoot)) % 12

ThirdWithSeventh(d) ==
  \/ FromRoot(d.pos1.note) \in {3, 4} /\ FromRoot(d.pos2.note) \in {10, 11}
  \/ FromRoot(d.pos1.note) \in {10, 11} /\ FromRoot(d.pos2.note) \in {3, 4}

Importance(i) ==
  CASE i \in {3, 4} -> 10
    [] i \in {10, 11} -> 9
    [] i = 0 -> 6
    [] i \in {1, 2} -> 4
    [] i \in {8, 9} -> 3
    [] i \in {5, 6} -> 3
    [] i = 7 -> 2

Score(d) == Importance(FromRoot(d.pos1.note)) + Importance(FromRoot(d.pos2.note))

PassesScore(d) == FromRoot(d.pos1.note) # FromRoot(d.pos2.note) /\ Score(d) >= 8

Coordinates(d) == {<<d.pos1.string, d.pos1.fret>>, <<d.pos2.string, d.pos2.fret>>}

ShareCoordinate(d, e) == Coordinates(d) \cap Coordinates(e) # {}

ShareString(d, e) == {d.pos1.string, d.pos2.string} \cap {e.pos1.string, e.pos2.string} # {}

Near(d, e) ==
  /\ MinFretOf(d) - MinFretOf(e) <= args.fretProximity
  /\ MinFretOf(e) - MinFretOf(d) <= args.fretProximity

Overlap(d, e) == ShareCoordinate(d, e) \/ (ShareString(d, e) /\ Near(d, e))

FilterCall ==
  pc \in {"filterGuideTonesByInterval", "filterGuideTonesByRole",
          "filterGuideTonesByScore"}

(***************************************************************************)
(* C11: the filter on roles, given a chord root, returns only dyads with   *)
(* one note a 3rd (3 or 4 semitones above the root) and the other a 7th    *)
(* (10 or 11), in either order, and returns at least one dyad whenever the *)
(* input holds such a dyad.                                                *)
(***************************************************************************)
C11_ThirdAndSeventh ==
  (pc = "filterGuideTonesByRole" /\ args.chordRoot # Null) =>
    /\ \A k \in 1..Len(Returned) : ThirdWithSeventh(Returned[k])
    /\ (\E k \in 1..Len(args.dyads) : ThirdWithSeventh(args.dyads[k]))
         => Len(Returned) > 0

\* the input holds a 7th below a 3rd and a dyad that is no such pair; the
\* first is returned, the second is not
C11_Witness ==
  /\ pc = "filterGuideTonesByRole"
  /\ args.chordRoot # Null
  /\ \E k \in 1..Len(args.dyads) : ~ThirdWithSeventh(args.dyads[k])
  /\ \E k \in 1..Len(Returned) :
       /\ FromRoot(Returned[k].pos1.note) \in {10, 11}
       /\ FromRoot(Returned[k].pos2.note) \in {3, 4}
  /\ Len(Returned) < Len(args.dyads)

(***************************************************************************)
(* C12: the filter on scores, given a chord root, returns only dyads whose *)
(* two notes are at different intervals from the root and whose importance *)
(* scores ({3,4}: 10, {10,11}: 9, 0: 6, {1,2}: 4, {8,9}: 3, {5,6}: 3,      *)
(* 7: 2) sum to at least 8.                                                *)
(***************************************************************************)
C12_DistinctDegreesScored ==
  (pc = "filterGuideTonesByScore" /\ args.chordRoot # Null) =>
    \A k \in 1..Len(Returned) :
      /\ FromRoot(Returned[k].pos1.note) # FromRoot(Returned[k].pos2.note)
      /\ Score(Returned[k]) >= 8

\* the input holds a dyad of two equal degrees and a dyad of two different
\* degrees that scores below 8; something else is returned
C12_Witness ==
  /\ pc = "filterGuideTonesByScore"
  /\ args.chordRoot # Null
  /\ \E k \in 1..Len(args.dyads) :
       FromRoot(args.dyads[k].pos1.note) = FromRoot(args.dyads[k].pos2.note)
  /\ \E k \in 1..Len(args.dyads) :
       /\ FromRoot(args.dyads[k].pos1.note) # FromRoot(args.dyads[k].pos2.note)
       /\ Score(args.dyads[k]) < 8
  /\ Len(Returned) > 0

(***************************************************************************)
(* C13: no two dyads at different places of the result of a guide-tone     *)
(* filter overlap: they share no (string, fret) coordinate, and they do    *)
(* not both share a string and have minimum frets within fretProximity.    *)
(* This holds for the filter on intervals, on roles and on scores.         *)
(***************************************************************************)
C13_NoOverlapInResult ==
  FilterCall =>
    \A i, j \in 1..Len(Returned) :
       i # j => ~Overlap(Returned[i], Returned[j])

\* two dyads are returned, and an input dyad that shares a string with a
\* returned one, close by but on other coordinates, is left out
C13_Witness ==
  /\ FilterCall
  /\ Len(Returned) >= 2
  /\ \E k \in 1..Len(args.dyads) :
       /\ \A m \in 1..Len(Returned) : Returned[m] # args.dyads[k]
       /\ \E m \in 1..Len(Returned) :
            /\ ~ShareCoordinate(args.dyads[k], Returned[m])
            /\ ShareString(args.dyads[k], Returned[m])
            /\ Near(args.dyads[k], Returned[m])

(***************************************************************************)
(* C14: the filter on scores, applied with root C to the dyads of C E G B  *)
(* on the default tuning, returns a dyad that pairs E with B; and whenever *)
(* some input dyad passes the filter's test, the result holds a dyad whose *)
(* score is the highest score of the dyads that pass.                      *)
(***************************************************************************)
PairsEWithB(d) == {d.pos1.note, d.pos2.note} = {<<"E">>, <<"B">>}

PassingScores ==
  {Score(args.dyads[k]) : k \in {i \in 1..Len(args.dyads) : PassesScore(args.dyads[i])}}

C14_BestScoreKept ==
  (pc = "filterGuideTonesByScore" /\ args.chordRoot # Null) =>
    /\ PassingScores # {} =>
         \E m \in 1..Len(Returned) :
            /\ Score(Returned[m]) \in PassingScores
            /\ \A s \in PassingScores : s <= Score(Returned[m])
    /\ (/\ args.search = "findDyadsUntagged"
        /\ args.chordTones = << <<"C">>, <<"E">>, <<"G">>, <<"B">> >>
        /\ args.chordRoot = <<"C">>)
         => \E m \in 1..Len(Returned) : PairsEWithB(Returned[m])

\* Cmaj7 on the default tuning: E with B is returned next to lower-scored
\* dyads
C14_Witness ==
  /\ pc = "filterGuideTonesByScore"
  /\ args.search = "findDyadsUntagged"
  /\ args.chordTones = << <<"C">>, <<"E">>, <<"G">>, <<"B">> >>
  /\ \E m \in 1..Len(Returned) : PairsEWithB(Returned[m])
  /\ \E m \in 1..Len(Returned) : Score(Returned[m]) < 19

(***************************************************************************)
(* Vocabulary of the substitution properties: the table of substitutes,    *)
(* the offsets of the degrees in a major scale and the chord qualities, as *)
(* harmony states them.                                                    *)
(***************************************************************************)
ExpectedSubstitutes(degree) ==
  CASE degree = "I" -> <<"iii", "vi">>
    [] degree = "ii" -> <<"IV">>
    [] degree = "iii" -> <<"I", "vi">>
    [] degree = "IV" -> <<"ii", "vi">>
    [] degree = "V" -> <<"vii°">>
    [] degree = "vi" -> <<"I", "iii">>
    [] degree = "vii°" -> <<"V">>

DegreeOffset(degree) ==
  CASE degree = "I" -> 0 [] degree = "ii" -> 2 [] degree = "iii" -> 4
    [] degree = "IV" -> 5 [] degree = "V" -> 7 [] degree = "vi" -> 9
    [] degree = "vii°" -> 11

MajorScale == {0, 2, 4, 5, 7, 9, 11}

QualitySuffix(degree) ==
  CASE degree \in {"I", "IV"} -> <<>>
    [] degree \in {"ii", "iii", "vi"} -> <<"m">>
    [] degree = "V" -> <<"7">>
    [] degree = "vii°" -> <<"m", "7", "b", "5">>

QualityOffsets(degree) ==
  CASE degree \in {"I", "IV"} -> <<0, 4, 7>>
    [] degree \in {"ii", "iii", "vi"} -> <<0, 3, 7>>
    [] degree = "V" -> <<0, 4, 7, 10>>
    [] degree = "vii°" -> <<0, 3, 6, 10>>

ImpliedTonic == (SpellingPitch(args.chordRoot) + 12 - DegreeOffset(args.degree)) % 12

PitchNames(root, offsets) ==
  [i \in 1..Len(offsets) |-> PitchName((root + offsets[i]) % 12)]

\* the diatonic candidate of a degree in the key of the implied tonic
ExpectedDiatonic(subDegree) ==
  LET root == (ImpliedTonic + DegreeOffset(subDegree)) % 12
  IN [substituteDegree |-> subDegree,
      substituteChord |-> PitchName(root) \o QualitySuffix(subDegree),
      substituteTones |-> PitchNames(root, QualityOffsets(subDegree)),
      type |-> "diatonic"]

ExpectedTritone ==
  LET root == (SpellingPitch(args.chordRoot) + 6) % 12
  IN [substituteDegree |-> "bII7",
      substituteChord |-> PitchName(root) \o <<"7">>,
      substituteTones |-> PitchNames(root, <<0, 4, 7, 10>>),
      type |-> "tritone"]

DiatonicReturned ==
  {k \in 1..Len(Returned) : Returned[k].type = "diatonic"}

TritoneReturned ==
  {k \in 1..Len(Returned) : Returned[k].type = "tritone"}

(***************************************************************************)
(* C15: the diatonic candidates of getSubstitutions are the degrees of the *)
(* table I: iii vi, ii: IV, iii: I vi, IV: ii vi, V: vii°, vi: I iii,      *)
(* vii°: V, in that order; the root of each is the tonic raised by the     *)
(* offset of its degree, the tonic being the chord root lowered by the     *)
(* offset of the chord's degree (I 0, ii 2, iii 4, IV 5, V 7, vi 9,        *)
(* vii° 11); its quality is major for I and IV, minor for ii, iii and vi,  *)
(* dominant 7 for V and m7b5 for vii°.  Root A as vi gives tonic C.        *)
(***************************************************************************)
C15_DiatonicCandidates ==
  /\ pc = "getSubstitutions" =>
       LET expected == ExpectedSubstitutes(args.degree)
       IN /\ DiatonicReturned = 1..Len(expected)
          /\ \A k \in 1..Len(expected) : Returned[k] = ExpectedDiatonic(expected[k])
  /\ pc = "getTonicFromChord" =>
       /\ Returned = PitchName(ImpliedTonic)
       /\ (args.chordRoot = <<"A">> /\ args.degree = "vi") => Returned = <<"C">>

\* A as vi: the substitutes are C and Em, in the key of C
C15_Witness ==
  /\ pc = "getSubstitutions"
  /\ args.chordRoot = <<"A">>
  /\ args.degree = "vi"
  /\ Len(Returned) = 2
  /\ Returned[1].substituteChord = <<"C">>
  /\ Returned[2].substituteChord = <<"E", "m">>
  /\ Returned[2].substituteTones = << <<"E">>, <<"G">>, <<"B">> >>

(***************************************************************************)
(* C16: substitution is mutual: whenever getSubstitutions offers a chord   *)
(* of degree b as diatonic substitute of a chord of degree a, it offers    *)
(* degree a as diatonic substitute of that chord of degree b; the table of *)
(* substitutes is symmetric, for ii, IV and vi as for the other degrees.   *)
(***************************************************************************)
C16_SubstitutionMutual ==
  pc = "getSubstitutions" =>
    \A k \in DiatonicReturned :
       LET substitute == Returned[k]
           back == getSubstitutions(Head(substitute.substituteTones),
                                    substitute.substituteDegree)
       IN \E m \in 1..Len(back) :
            /\ back[m].type = "diatonic"
            /\ back[m].substituteDegree = args.degree

(***************************************************************************)
(* C17: getSubstitutions returns a candidate of type tritone exactly when  *)
(* the degree is V; it is then the only one, labelled bII7, its root is    *)
(* the chord root raised by 6 semitones and its tones are the dominant 7   *)
(* chord of that root; for root G it is C#7 with C# F G# B.                *)
(***************************************************************************)
C17_TritoneOnlyForV ==
  pc = "getSubstitutions" =>
    /\ TritoneReturned # {} <=> args.degree = "V"
    /\ Cardinality(TritoneReturned) <= 1
    /\ \A k \in TritoneReturned : Returned[k] = ExpectedTritone
    /\ (args.chordRoot = <<"G">> /\ args.degree = "V") =>
         \E k \in 1..Len(Returned) :
            /\ Returned[k].type = "tritone"
            /\ Returned[k].substituteChord = <<"C", "#", "7">>
            /\ Returned[k].substituteTones =
                 << <<"C", "#">>, <<"F">>, <<"G", "#">>, <<"B">> >>

\* G as V: F#m7b5 comes first, C#7 second
C17_Witness ==
  /\ pc = "getSubstitutions"
  /\ args.chordRoot = <<"G">>
  /\ args.degree = "V"
  /\ Len(Returned) = 2
  /\ Returned[1].type = "diatonic"
  /\ Returned[2].substituteDegree = "bII7"
  /\ Returned[2].substituteChord = <<"C", "#", "7">>

(***************************************************************************)
(* C18: the tritone substitute of a dominant root R shares the tritone of  *)
(* R7 with the roles swapped: its 3rd is the pitch class of R + 10, the    *)
(* 7th of R7, and its 7th is the pitch class of R + 4, the 3rd of R7; the  *)
(* tritone substitute of the substitute's root is rooted on R again.       *)
(***************************************************************************)
C18_TritoneShared ==
  pc = "getTritoneSubstitution" =>
    LET R == SpellingPitch(args.dominantRoot)
        subRoot == SubSeq(Returned.chord, 1, Len(Returned.chord) - 1)
    IN /\ Len(Returned.tones) = 4
       /\ Returned.tones[1] = subRoot
       /\ SpellingPitch(Returned.tones[2]) = (R + 10) % 12
       /\ SpellingPitch(Returned.tones[4]) = (R + 4) % 12
       /\ getTritoneSubstitution(subRoot).chord = args.dominantRoot \o <<"7">>

\* A#7 and E7: the substitute's root is below the dominant root
C18_Witness ==
  /\ pc = "getTritoneSubstitution"
  /\ args.dominantRoot = <<"A", "#">>
  /\ Returned.chord = <<"E", "7">>
  /\ Returned.tones = << <<"E">>, <<"G", "#">>, <<"B">>, <<"D">> >>

(***************************************************************************)
(* C19: every tone of every diatonic substitute getSubstitutions returns   *)
(* is in the major scale of the implied tonic (tonic + 0, 2, 4, 5, 7, 9,   *)
(* 11), the 7th of the V7 and of the vii° m7b5 substitute included.        *)
(***************************************************************************)
C19_TonesInKey ==
  pc = "getSubstitutions" =>
    \A k \in DiatonicReturned :
       \A i \in 1..Len(Returned[k].substituteTones) :
          (SpellingPitch(Returned[k].substituteTones[i]) + 12 - ImpliedTonic) % 12
            \in MajorScale

\* a leading-tone chord: its substitute is the V7 of the key, whose 7th is
\* the 4th degree of the scale
C19_Witness ==
  /\ pc = "getSubstitutions"
  /\ args.degree = "vii°"
  /\ Len(Returned) = 1
  /\ Len(Returned[1].substituteTones) = 4
  /\ SpellingPitch(Returned[1].substituteTones[4]) = (ImpliedTonic + 5) % 12

(***************************************************************************)
(* C20: every dyad of findSubstitutionDyads comes from one candidate of    *)
(* getSubstitutions: its source is tritone-sub for the tritone candidate   *)
(* and diatonic-sub otherwise, it carries the chord symbol and the degree  *)
(* label of that candidate, both of its notes are tones of that candidate, *)
(* and none of its positions is lever-bent.                                *)
(***************************************************************************)
ExpectedCandidates ==
  {ExpectedDiatonic(ExpectedSubstitutes(args.degree)[k]) :
     k \in 1..Len(ExpectedSubstitutes(args.degree))}
    \cup (IF args.degree = "V" THEN {ExpectedTritone} ELSE {})

Bent(pos) == "isLeverBent" \in DOMAIN pos /\ pos.isLeverBent

SubstitutionSearch == pc \in {"findSubstitutionDyads", "findSubstitutionDyadsPlain"}

C20_SubstituteDyadsStamped ==
  SubstitutionSearch =>
    \A k \in 1..Len(Returned) :
       LET d == Returned[k]
       IN /\ \E c \in ExpectedCandidates :
               /\ d.source = IF c.type = "tritone" THEN "tritone-sub" ELSE "diatonic-sub"
               /\ d.substitutionInfo = [substituteChord |-> c.substituteChord,
                                        substituteDegree |-> c.substituteDegree]
               /\ d.pos1.note \in Range(c.substituteTones)
               /\ d.pos2.note \in Range(c.substituteTones)
          /\ ~Bent(d.pos1)
          /\ ~Bent(d.pos2)

\* G as V on the default tuning: dyads of F#m7b5 and dyads of C#7, among
\* them B on the open second string, which a lever search would also bend
C20_Witness ==
  /\ pc = "findSubstitutionDyads"
  /\ args.degree = "V"
  /\ args.tuning = LAP_STEEL_TUNING
  /\ \E k \in 1..Len(Returned) : Returned[k].source = "diatonic-sub"
  /\ \E k \in 1..Len(Returned) :
       /\ Returned[k].source = "tritone-sub"
       /\ Returned[k].substitutionInfo.substituteDegree = "bII7"
       /\ Returned[k].pos2.note = <<"B">>
       /\ Returned[k].pos2.string = 1
       /\ Returned[k].pos2.fret = 0

(***************************************************************************)
(* C24: the plain search is complete and free of duplicates: the           *)
(* (string1, fret1, string2, fret2) tuples of its result are exactly the   *)
(* pairs of places on two different strings, at most maxSlant frets apart, *)
(* where a chord tone sounds, and each tuple occurs once, also when        *)
(* chordTones names a pitch class twice.  In the lever-aware search no two *)
(* returned dyads have the same four coordinates either.                   *)
(***************************************************************************)
FourCoordinates(d) == <<d.pos1.string, d.pos1.fret, d.pos2.string, d.pos2.fret>>

\* a chord tone sounds on this string at this fret
SoundsChordTone(string, fret) ==
  \E i \in 1..Len(args.chordTones) :
     SpellingPitch(args.chordTones[i])
       = (SpellingPitch(args.tuning[string + 1]) + fret) % 12

ChordTonePairs ==
  {<<s1, f1, s2, f2>> :
     s1 \in 0..(Len(args.tuning) - 1), f1 \in 0..args.maxFret,
     s2 \in 0..(Len(args.tuning) - 1), f2 \in 0..args.maxFret}

BarPairs ==
  {q \in ChordTonePairs :
     /\ q[1] < q[3]
     /\ q[2] - q[4] <= args.maxSlant /\ q[4] - q[2] <= args.maxSlant
     /\ SoundsChordTone(q[1], q[2]) /\ SoundsChordTone(q[3], q[4])}

OnceEach ==
  \A k, m \in 1..Len(Returned) :
     FourCoordinates(Returned[k]) = FourCoordinates(Returned[m]) => k = m

C24_CompleteAndOnce ==
  /\ PlainCall =>
       {FourCoordinates(Returned[k]) : k \in 1..Len(Returned)} = BarPairs
  /\ DyadCall => OnceEach

\* a plain search for tones that name G twice returned dyads, two G's among
\* them
C24_Witness ==
  /\ pc = "findDyadsPlain"
  /\ args.chordTones = << <<"G">>, <<"B">>, <<"G">> >>
  /\ args.maxFret = FRET_COUNT
  /\ \E k \in 1..Len(Returned) :
       Returned[k].pos1.note = <<"G">> /\ Returned[k].pos2.note = <<"G">>

(***************************************************************************)
(* C28: every dyad findDyads returns carries the interval from the note of *)
(* its lower string up to the note of its higher string, modulo 12, the    *)
(* name of that interval, the priority the table gives it, and the source  *)
(* "lever" exactly when one of its positions is lever-bent, "direct"       *)
(* otherwise.                                                              *)
(***************************************************************************)
IntervalLabel(i) ==
  CASE i = 0 -> "unison" [] i = 1 -> "m2" [] i = 2 -> "M2" [] i = 3 -> "m3"
    [] i = 4 -> "M3" [] i = 5 -> "P4" [] i = 6 -> "TT" [] i = 7 -> "P5"
    [] i = 8 -> "m6" [] i = 9 -> "M6" [] i = 10 -> "m7" [] i = 11 -> "M7"

IntervalRank(i) ==
  CASE i \in {3, 4} -> 10 [] i \in {10, 11} -> 9 [] i = 6 -> 8 [] i = 7 -> 5
    [] i \in {8, 9} -> 4 [] i = 5 -> 3 [] i = 2 -> 2 [] i = 1 -> 1 [] i = 0 -> 0

Upward(d) == (SpellingPitch(d.pos2.note) - SpellingPitch(d.pos1.note) + 12) % 12

C28_DyadFields ==
  DyadCall =>
    \A k \in 1..Len(Returned) :
      LET d == Returned[k]
      IN /\ d.interval = Upward(d)
         /\ d.intervalName = IntervalLabel(Upward(d))
         /\ d.priority = IntervalRank(Upward(d))
         /\ d.source \in {"lever", "direct"}
         /\ d.source = "lever" <=> (Bent(d.pos1) \/ Bent(d.pos2))

\* a lever-aware search returned a third that uses a lever and a tritone
\* that uses none
C28_Witness ==
  /\ pc = "findDyads"
  /\ args.useLevers
  /\ \E k \in 1..Len(Returned) :
       Returned[k].source = "lever" /\ Returned[k].priority = 10
  /\ \E k \in 1..Len(Returned) :
       /\ Returned[k].source = "direct"
       /\ Returned[k].intervalName = "TT"
       /\ Returned[k].pos1.string < Returned[k].pos2.string

(***************************************************************************)
(* C29: every position of every dyad the lever-aware findDyads returns     *)
(* lies on a string of the tuning it was given: 0 <= string < the number   *)
(* of strings, also for a tuning with fewer strings than the levers        *)
(* assume.                                                                 *)
(***************************************************************************)
LeverCall == pc = "findDyads" /\ args.useLevers

OnTuning(pos) == 0 <= pos.string /\ pos.string < Len(args.tuning)

C29_OnTuningStrings ==
  LeverCall =>
    \A k \in 1..Len(Returned) :
      OnTuning(Returned[k].pos1) /\ OnTuning(Returned[k].pos2)

(***************************************************************************)
(* C30: every position the lever-aware position search returns on a string *)
(* of the tuning sounds the pitch class it is labelled with: without the   *)
(* lever the open string of the tuning raised by the fret, with the lever  *)
(* (fret 0) the open string of the tuning raised by the semitones of the   *)
(* lever of that string.                                                   *)
(***************************************************************************)
LeverRaise(string) ==
  (CHOOSE lever \in LeverSet : lever.stringIndex = string).semitones

SoundingPitch(pos) ==
  (SpellingPitch(args.tuning[pos.string + 1])
     + (IF pos.isLeverBent THEN LeverRaise(pos.string) ELSE pos.fret)) % 12

C30_SoundsItsLabel ==
  pc = "findNotePositionsWithLevers" =>
    \A k \in 1..Len(Returned) :
      OnTuning(Returned[k]) =>
        SpellingPitch(Returned[k].note) = SoundingPitch(Returned[k])

(***************************************************************************)
(* C25: the greedy selection drops a dyad only for a conflict with a dyad  *)
(* it ranked no lower.  In the filter on scores every input dyad that      *)
(* passes the test and is not in the result overlaps a returned dyad whose *)
(* score is at least its own; in the filter on intervals the same holds    *)
(* with the priority field as the score.                                   *)
(***************************************************************************)
InResult(d) == \E m \in 1..Len(Returned) : Returned[m] = d

PassesInterval(d) == d.interval \in {3, 4, 6, 10, 11}

C25_DroppedOnlyForConflict ==
  /\ (pc = "filterGuideTonesByScore" /\ args.chordRoot # Null) =>
       \A k \in 1..Len(args.dyads) :
          (PassesScore(args.dyads[k]) /\ ~InResult(args.dyads[k])) =>
            \E m \in 1..Len(Returned) :
               /\ Overlap(args.dyads[k], Returned[m])
               /\ Score(Returned[m]) >= Score(args.dyads[k])
  /\ pc = "filterGuideTonesByInterval" =>
       \A k \in 1..Len(args.dyads) :
          (PassesInterval(args.dyads[k]) /\ ~InResult(args.dyads[k])) =>
            \E m \in 1..Len(Returned) :
               /\ Overlap(args.dyads[k], Returned[m])
               /\ Returned[m].priority >= args.dyads[k].priority

\* the filter on scores dropped a passing dyad that came first in the input
\* for a returned dyad of higher score, and returned two dyads
C25_Witness ==
  /\ pc = "filterGuideTonesByScore"
  /\ args.chordRoot # Null
  /\ Len(args.dyads) >= 2
  /\ PassesScore(args.dyads[1])
  /\ ~InResult(args.dyads[1])
  /\ \E m \in 1..Len(Returned) :
       /\ Overlap(args.dyads[1], Returned[m])
       /\ Score(Returned[m]) > Score(args.dyads[1])
  /\ Len(Returned) >= 2

(***************************************************************************)
(* C26: dyadsOverlap is symmetric, whatever fretProximity is: a overlaps b *)
(* exactly when b overlaps a.  It is not transitive: the witness is a      *)
(* state with three dyads A, B, C, where A overlaps B, B overlaps C and A  *)
(* does not overlap C.  The function reads the coordinates of the dyads    *)
(* only, so three dyads on the strings 0 to 2 and the frets 0 to 4 are     *)
(* three dyads of a board of six strings and 24 frets.                     *)
(***************************************************************************)
C26_OverlapSymmetric ==
  pc = "dyadsOverlap" =>
    \A i, j \in 1..Len(Returned) : Returned[i][j] = Returned[j][i]

\* A overlaps B by a shared string close by, B overlaps C, and A does
\* not overlap C
C26_Witness ==
  /\ pc = "dyadsOverlap"
  /\ Len(Returned) = 3
  /\ Returned[1][2] /\ Returned[2][1]
  /\ Returned[2][3]
  /\ ~Returned[1][3]
  /\ ~ShareCoordinate(args.dyads[1], args.dyads[2])
  /\ \A k \in 1..3 :
       /\ args.dyads[k].pos2.string < Len(LAP_STEEL_TUNING)
       /\ args.dyads[k].pos2.fret <= FRET_COUNT /\ args.dyads[k].pos1.fret <= FRET_COUNT

(***************************************************************************)
(* C27: at the filter stage the filter on scores admits whatever the       *)
(* filter on roles admits: for every root and every dyad, a dyad that      *)
(* passes the test on roles (one note a 3rd, the other a 7th of the root)  *)
(* passes the test on scores (different degrees, importance 8 or more).    *)
(***************************************************************************)
C27_ScoreAdmitsRolePairs ==
  pc = "filterStages" =>
    \A k \in 1..Len(Returned) :
       Returned[k].byRole # <<>> => Returned[k].byScore = Returned[k].byRole

\* a 3rd with a 7th passes both tests, and a dyad that fails
\* the test on roles passes the test on scores
C27_Witness ==
  /\ pc = "filterStages"
  /\ args.chordRoot # Null
  /\ \E k \in 1..Len(Returned) :
       /\ Returned[k].byRole = <<args.dyads[k]>>
       /\ Returned[k].byScore = <<args.dyads[k]>>
       /\ ThirdWithSeventh(args.dyads[k])
  /\ \E k \in 1..Len(Returned) :
       /\ Returned[k].byRole = <<>>
       /\ Returned[k].byScore = <<args.dyads[k]>>

\* the text in the chord field is empty or is no chord symbol
InvalidChordText ==
  \/ trim(app.chordInput.input) = <<>>
  \/ getChordTones(trim(app.chordInput.input)).threw

\* C21: whenever the text in the chord field is empty or invalid, App holds
\* no chord tones and no chord root, and the dyad list it hands to the
\* Fretboard is empty in the "all" and in the "guide" display mode.
C21_InvalidChordRejected ==
  (pc = "app" /\ InvalidChordText) =>
    /\ app.state.chordTones = <<>>
    /\ app.state.chordRoot = Null
    /\ \A mode \in DisplayModes :
         appDyads([app.state EXCEPT !.displayMode = mode]) = <<>>

\* an invalid text was typed over the chord C while substitutions are shown
C21_Witness ==
  /\ pc = "app"
  /\ app.chordInput.input = <<"C", "x">>
  /\ app.chordInput.error # NoError
  /\ app.state.showSubstitutions
  /\ app.state.chordTones = <<>>


\* the custom text in the field is the one the custom effect applied last:
\* the effect runs on every change of a non-empty text and clears the
\* message only when it hands the notes to onTuningChange
CustomTextApplied ==
  /\ pc = "app"
  /\ app.tuningInput.isCustom
  /\ app.tuningInput.customTuning # <<>>
  /\ app.tuningInput.error = NoError

\* C22: a custom tuning text is applied only if it has 2 to 12 tokens and
\* every token spells a pitch class.
C22_AppliedOnlyIfValid ==
  CustomTextApplied =>
    /\ Len(splitParts(app.tuningInput.customTuning)) \in 2..12
    /\ \A k \in 1..Len(splitParts(app.tuningInput.customTuning)) :
         AcceptedSpelling(splitParts(app.tuningInput.customTuning)[k])


\* the root of the chord a displayed dyad belongs to: the root of the
\* substitute chord for a substitution dyad, the chord root of App otherwise
ChordRootOf(d) ==
  IF "substitutionInfo" \in DOMAIN d
  THEN IF Len(d.substitutionInfo.substituteChord) >= 2
            /\ d.substitutionInfo.substituteChord[2] \in {"#", "b"}
       THEN SubSeq(d.substitutionInfo.substituteChord, 1, 2)
       ELSE SubSeq(d.substitutionInfo.substituteChord, 1, 1)
  ELSE app.state.chordRoot

AboveItsRoot(d, note) ==
  (SpellingPitch(note) + 12 - SpellingPitch(ChordRootOf(d))) % 12

ThirdWithSeventhOfItsChord(d) ==
  \/ AboveItsRoot(d, d.pos1.note) \in {3, 4} /\ AboveItsRoot(d, d.pos2.note) \in {10, 11}
  \/ AboveItsRoot(d, d.pos1.note) \in {10, 11} /\ AboveItsRoot(d, d.pos2.note) \in {3, 4}

\* C23: in the "guide" display mode every dyad of the list handed to the
\* Fretboard is a 3rd with a 7th of the chord it belongs to, with the
\* substitutions shown or hidden.
C23_GuideShowsThirdsAndSevenths ==
  (pc = "app" /\ app.state.displayMode = "guide") =>
    LET guideTones(dyads) ==
          \A k \in 1..Len(dyads) : ThirdWithSeventhOfItsChord(dyads[k])
    IN guideTones(appDyads(app.state))

====
